---- MODULE Spec2Model ----
(***************************************************************************)
(* The recursive fetch engine of notion-async (notion-async-api/src/        *)
(* fetcher.rs, api.rs, object.rs): one task per upstream request, one       *)
(* hand-off queue and one drain loop per node of the task tree, one merged  *)
(* output stream, one shared rate limiter; and the consumer of the stream   *)
(* (src/main.rs run_sync, src/db.rs), which stores the records in tables.   *)
(***************************************************************************)
EXTENDS Integers, Sequences, FiniteSets, TLC

VARIABLES
    world,       \* the upstream content tree the crawl runs against
    nodes,       \* nodes[t]: the task t, its execution and its hand-off queue
    out,         \* the merged output channel (res_tx -> res_rx), FIFO
    resParked,   \* the res_tx senders parked on the full output channel, FIFO
    resSenders,  \* number of live res_tx handles
    got,         \* the items the consumer has taken from res_rx
    tokens,      \* the rate limiter's available tokens
    throttles,   \* throttling responses the upstream has given so far
    rx,          \* the consumer's end of the output channel: "open", "dropped"
    db,          \* the consumer's store: the keys it has seen and its tables
    latest       \* latest[type, id]: the last record of that type and id consumed

vars == <<world, nodes, out, resParked, resSenders, got, tokens, throttles, rx,
          db, latest>>

----------------------------------------------------------------------------
\* Bounds of the model.

\* Throttling responses the upstream gives in one crawl.
MaxThrottle == 2
\* Largest Retry-After value (seconds) the upstream sends.
MaxRetryAfter == 2
\* Buffer of a hand-off channel and of the output channel (the code builds
\* both with channel(10); the model scales the buffers down).
TaskBuffer == 1
ResBuffer == 1

\* Program constants.
Rate == 3
Burst == 5

----------------------------------------------------------------------------
\* Option<T>: None is the empty sequence, Some(x) the one-element sequence.
None == <<>>
Some(x) == <<x>>

Min(a, b) == IF a < b THEN a ELSE b

----------------------------------------------------------------------------
\* The upstream content trees.

Ids == {"P1", "P2", "D1", "D2", "B0", "B1", "B2", "B3", "C1", "C2"}

NoSeq == [i \in Ids |-> <<>>]
Plain == [i \in Ids |-> "paragraph"]

\* A page addressed as a block, with three leaf blocks and no comment; the
\* upstream returns each listing in one page.
WorldPage ==
    [root |-> "P1",
     block_type |-> [Plain EXCEPT !["P1"] = "child_page"],
     has_children |-> {"P1"},
     children |-> [NoSeq EXCEPT !["P1"] = <<"B1", "B2", "B3">>],
     items |-> NoSeq,
     comments |-> NoSeq,
     page_sizes |-> {3},
     throttling |-> TRUE,
     paging |-> "regular"]

\* A block with three leaf blocks; the upstream splits the listing any way.
WorldList ==
    [root |-> "B0",
     block_type |-> Plain,
     has_children |-> {"B0"},
     children |-> [NoSeq EXCEPT !["B0"] = <<"B1", "B2", "B3">>],
     items |-> NoSeq,
     comments |-> NoSeq,
     page_sizes |-> {1, 2, 3},
     throttling |-> TRUE,
     paging |-> "regular"]

\* A block holding a child page whose block says it has no children: the
\* page is empty and has one comment.
WorldNest ==
    [root |-> "B0",
     block_type |-> [Plain EXCEPT !["P2"] = "child_page"],
     has_children |-> {"B0"},
     children |-> [NoSeq EXCEPT !["B0"] = <<"P2">>],
     items |-> NoSeq,
     comments |-> [NoSeq EXCEPT !["P2"] = <<"C1">>],
     page_sizes |-> {1},
     throttling |-> FALSE,
     paging |-> "regular"]

\* A page with a block that has a child, and two comments returned one per
\* page: the task tree has siblings (the two listings of the page) that
\* each have a follow-up, which are cousins.
WorldCousins ==
    [root |-> "P2",
     block_type |-> [Plain EXCEPT !["P2"] = "child_page"],
     has_children |-> {"P2", "B1"},
     children |-> [NoSeq EXCEPT !["P2"] = <<"B1">>, !["B1"] = <<"B2">>],
     items |-> NoSeq,
     comments |-> [NoSeq EXCEPT !["P2"] = <<"C1", "C2">>],
     page_sizes |-> {1},
     throttling |-> FALSE,
     paging |-> "regular"]

\* Two blocks whose listings both return the same block B3: B3 is reachable
\* through two parents.
WorldShared ==
    [root |-> "B0",
     block_type |-> Plain,
     has_children |-> {"B0", "B1", "B2"},
     children |-> [NoSeq EXCEPT !["B0"] = <<"B1", "B2">>,
                                !["B1"] = <<"B3">>,
                                !["B2"] = <<"B3">>],
     items |-> NoSeq,
     comments |-> NoSeq,
     page_sizes |-> {2},
     throttling |-> FALSE,
     paging |-> "regular"]

\* A database holding a page (with a block and a comment).
WorldDb ==
    [root |-> "D1",
     block_type |-> [Plain EXCEPT !["D1"] = "child_database"],
     has_children |-> {},
     children |-> [NoSeq EXCEPT !["P2"] = <<"B1">>],
     items |-> [NoSeq EXCEPT !["D1"] = <<[kind |-> "Page", id |-> "P2"]>>],
     comments |-> [NoSeq EXCEPT !["P2"] = <<"C1">>],
     page_sizes |-> {1},
     throttling |-> FALSE,
     paging |-> "regular"]

\* A database whose block says it has children, holding a database (empty)
\* and a page (empty), returned one per page.
WorldDbNest ==
    [root |-> "D1",
     block_type |-> [Plain EXCEPT !["D1"] = "child_database"],
     has_children |-> {"D1"},
     children |-> NoSeq,
     items |-> [NoSeq EXCEPT !["D1"] = <<[kind |-> "Database", id |-> "D2"],
                                         [kind |-> "Page", id |-> "P2"]>>],
     comments |-> NoSeq,
     page_sizes |-> {1},
     throttling |-> FALSE,
     paging |-> "regular"]

Worlds ==
    {WorldPage, WorldList, WorldNest, WorldCousins, WorldShared, WorldDb,
     WorldDbNest}

\* A block with two leaf blocks, listed one per page by an upstream that
\* sends a continuation token with every page, the last one too.
WorldStrayToken ==
    [root |-> "B0",
     block_type |-> Plain,
     has_children |-> {"B0"},
     children |-> [NoSeq EXCEPT !["B0"] = <<"B1", "B2">>],
     items |-> NoSeq,
     comments |-> NoSeq,
     page_sizes |-> {1},
     throttling |-> TRUE,
     paging |-> "stray_token"]

\* The same block, by an upstream that sets has_more on the first page but
\* sends no continuation token.
WorldLostToken == [WorldStrayToken EXCEPT !.paging = "lost_token"]

QuirkWorlds == {WorldStrayToken, WorldLostToken}

----------------------------------------------------------------------------
\* api.rs: request targets.

\* Requestable::url for the type R and the id.
url(R, id) ==
    [path |-> CASE R = "Block" -> "blocks/{id}"
                [] R = "Page" -> "pages/{id}"
                [] R = "Database" -> "databases/{id}"
                [] R = "ObjectList<Block>" -> "blocks/{id}/children"
                [] R = "ObjectList<AnyObject>" -> "databases/{id}/query"
                [] R = "ObjectList<Comment>" -> "comments?block_id={id}",
     id |-> id]

\* Requestable::method: GET unless overridden.
method(R) == IF R = "ObjectList<AnyObject>" THEN "POST" ELSE "GET"

\* PaginationInfo::build.
build(u, m) == [cursor |-> None, url |-> u, method |-> m, start_index |-> 0]

\* PaginationInfo::new::<R>(id).
PaginationInfo_new(R, id) == build(url(R, id), method(R))

\* The tasks: ReqType::{Block, Page, Database}(id) and
\* ReqType::{BlockChildren, DatabaseQuery, Comments}(PaginationInfo).
Single(kind, id) == [kind |-> kind, id |-> id, pagination |-> None]
Listing(kind, p) == [kind |-> kind, id |-> p.url.id, pagination |-> Some(p)]

IsListing(task) == task.pagination # None

----------------------------------------------------------------------------
\* error.rs and api.rs: errors and results.

Ok(v) == [ok |-> TRUE, val |-> v, err |-> None]
Err(e) == [ok |-> FALSE, val |-> None, err |-> Some(e)]

\* NotionError::RequestFailed(RequestError::X); secs is used by RetryAfter.
invalid_response == [class |-> "InvalidResponse", secs |-> 0]
retry_after(secs) == [class |-> "RetryAfter", secs |-> secs]
\* From<reqwest::Error> for NotionError.
from_reqwest == [class |-> "Other", secs |-> 0]

\* An HTTP exchange: the transport fails, or a response arrives with a
\* status, an optional Retry-After header (which parses to seconds or does
\* not) and a body that decodes to `value` or does not.
TransportFailure == [sent |-> FALSE, status |-> 0, retry |-> None,
                     decodes |-> FALSE, value |-> None]
Http(status, retry, decodes, value) ==
    [sent |-> TRUE, status |-> status, retry |-> retry,
     decodes |-> decodes, value |-> value]

RetryGood(secs) == Some([parses |-> TRUE, secs |-> secs])
RetryBad == Some([parses |-> FALSE, secs |-> 0])

\* check_retry_after.
check_retry_after_default_zero(res) ==
    IF res.status = 429
    THEN IF res.retry = None \/ ~res.retry[1].parses THEN Err(retry_after(0))
         ELSE Err(retry_after(res.retry[1].secs))
    ELSE Ok(None)
check_retry_after_hint_ignored(res) ==
    IF res.status = 429 THEN Err(invalid_response) ELSE Ok(None)
check_retry_after(res) ==
    IF res.status = 429
    THEN IF res.retry = None THEN Err(invalid_response)
         ELSE IF ~res.retry[1].parses THEN Err(invalid_response)
         ELSE Err(retry_after(res.retry[1].secs))
    ELSE Ok(None)

\* check_status_code, on StatusCode::is_success.
check_status_code(res) ==
    IF ~(res.status >= 200 /\ res.status < 300) THEN Err(invalid_response)
    ELSE Ok(None)

\* Api::get_object.
get_object(res) ==
    IF ~res.sent THEN Err(from_reqwest)
    ELSE IF ~check_retry_after(res).ok THEN check_retry_after(res)
    ELSE IF ~check_status_code(res).ok THEN check_status_code(res)
    ELSE IF ~res.decodes THEN Err(invalid_response)
    ELSE Ok(res.value)

\* NextCursor for ObjectList<T>.
next_cursor_token_only(list) == list.next_page_info.next_cursor
next_cursor(list) ==
    IF ~list.next_page_info.has_more THEN None
    ELSE list.next_page_info.next_cursor

\* The start offset of the cursor derived from a page.
NextStartIndexLenOnly(p, list) == Len(list.results)
NextStartIndexCarried(p, list) == p.start_index
NextStartIndex(p, list) == p.start_index + Len(list.results)

\* PaginationInfo::next_page, after the response has arrived.
next_page(p, res) ==
    IF ~res.sent THEN Err(from_reqwest)
    ELSE IF ~check_retry_after(res).ok THEN check_retry_after(res)
    ELSE IF ~check_status_code(res).ok THEN check_status_code(res)
    ELSE IF ~res.decodes THEN Err(from_reqwest)
    ELSE LET list == [res.value EXCEPT !.start_index = p.start_index]
             next == IF next_cursor(list) = None THEN None
                     ELSE Some([build(p.url, p.method) EXCEPT
                                  !.cursor = Some(next_cursor(list)[1]),
                                  !.start_index = NextStartIndex(p, list)])
         IN Ok([result |-> list, pagination |-> next])

----------------------------------------------------------------------------
\* The upstream API: what it can answer to the request of a task.

\* The Block object of id.
BlockObj(w, id) ==
    [id |-> id, block_type |-> w.block_type[id],
     has_children |-> id \in w.has_children, child_index |-> 0]

\* The whole listing a listing task pages through, as decoded objects.
ListingOf(w, task) ==
    CASE task.kind = "BlockChildren" ->
           [i \in 1..Len(w.children[task.id]) |-> BlockObj(w, w.children[task.id][i])]
      [] task.kind = "DatabaseQuery" -> w.items[task.id]
      [] task.kind = "Comments" ->
           [i \in 1..Len(w.comments[task.id]) |-> [id |-> w.comments[task.id][i]]]

\* The continuation token is the upstream's offset into the listing.
Offset(p) == IF p.cursor = None THEN 0 ELSE p.cursor[1]

\* One page: n items from offset, {results, next_cursor, has_more}.
ListPage(items, offset, n) ==
    [results |-> SubSeq(items, offset + 1, offset + n),
     start_index |-> 0,
     next_page_info |->
        [next_cursor |-> IF offset + n < Len(items) THEN Some(offset + n) ELSE None,
         has_more |-> offset + n < Len(items)]]

\* The page as the upstream of world w sends it.  A regular upstream sends a
\* continuation token exactly when more items follow; one sends a token with
\* every page, even the last ("stray_token"); one sets has_more on a page
\* that is not the last but sends no token ("lost_token").
Sent(w, page, offset) ==
    CASE w.paging = "stray_token" ->
           [page EXCEPT !.next_page_info.next_cursor =
                           Some(offset + Len(page.results))]
      [] w.paging = "lost_token" ->
           [page EXCEPT !.next_page_info.next_cursor = None]
      [] OTHER -> page

\* The sizes the upstream may give the next page when `remaining` items are left.
PageSizes(w, remaining) ==
    IF remaining = 0 THEN {0} ELSE {Min(n, remaining) : n \in w.page_sizes}

Payloads(w, task) ==
    IF IsListing(task)
    THEN LET items == ListingOf(w, task)
             off == Offset(task.pagination[1])
         IN {Sent(w, ListPage(items, off, n), off) : n \in PageSizes(w, Len(items) - off)}
    ELSE IF task.kind = "Block" THEN {BlockObj(w, task.id)}
    ELSE {[id |-> task.id]}

Throttled(secs) == Http(429, RetryGood(secs), FALSE, None)

\* Every exchange that ends the request loop of a task.
FinalResponses(w, task) ==
    {TransportFailure,
     Http(429, None, FALSE, None),
     Http(429, RetryBad, FALSE, None),
     Http(500, None, FALSE, None),
     Http(200, None, FALSE, None)}
    \cup {Http(200, None, TRUE, v) : v \in Payloads(w, task)}

----------------------------------------------------------------------------
\* fetcher.rs: what a task execution sends, in program order.

TaskOp(task) == [ch |-> "task", task |-> task, item |-> None]
ResOp(item) == [ch |-> "res", task |-> None, item |-> Some(item)]

\* Ok(AnyObject::X(obj)) and Err(e) as items of the output stream.
OkItem(type, id, child_index) ==
    [ok |-> TRUE, type |-> type, id |-> id, child_index |-> child_index,
     class |-> ""]
ErrItem(e) ==
    [ok |-> FALSE, type |-> "Error", id |-> "", child_index |-> 0,
     class |-> e.class]

\* get_task_for_block.
get_task_for_block_flag_first(block) ==
    IF block.has_children
    THEN Some(Listing("BlockChildren",
                      PaginationInfo_new("ObjectList<Block>", block.id)))
    ELSE CASE block.block_type = "child_page" -> Some(Single("Page", block.id))
           [] block.block_type = "child_database" -> Some(Single("Database", block.id))
           [] OTHER -> None
get_task_for_block_no_database(block) ==
    CASE block.block_type = "child_page" -> Some(Single("Page", block.id))
      [] OTHER ->
           IF block.has_children
           THEN Some(Listing("BlockChildren",
                             PaginationInfo_new("ObjectList<Block>", block.id)))
           ELSE None
get_task_for_block(block) ==
    CASE block.block_type = "child_page" -> Some(Single("Page", block.id))
      [] block.block_type = "child_database" -> Some(Single("Database", block.id))
      [] OTHER ->
           IF block.has_children
           THEN Some(Listing("BlockChildren",
                             PaginationInfo_new("ObjectList<Block>", block.id)))
           ELSE None

OptTaskOp(t) == IF t = None THEN <<>> ELSE <<TaskOp(t[1])>>
NextPageOp(kind, pagination) ==
    IF pagination = None THEN <<>> ELSE <<TaskOp(Listing(kind, pagination[1]))>>

\* The position stamped on the idx-th block of a page.
ChildIndex(start_index, idx) == start_index + idx

\* do_task, TaskOutput::BlockChildren: the loop over the page from idx on.
RECURSIVE BlockChildrenLoop(_, _, _)
BlockChildrenLoop(results, start_index, idx) ==
    IF idx >= Len(results) THEN <<>>
    ELSE LET block == [results[idx + 1] EXCEPT
                         !.child_index = ChildIndex(start_index, idx)]
         IN OptTaskOp(get_task_for_block(block))
            \o <<ResOp(OkItem("Block", block.id, block.child_index))>>
            \o BlockChildrenLoop(results, start_index, idx + 1)

\* do_task, TaskOutput::QueryDatabase: the loop over the page from idx on.
RECURSIVE QueryDatabaseLoopPageFetch(_, _)
QueryDatabaseLoopPageFetch(results, idx) ==
    IF idx >= Len(results) THEN <<>>
    ELSE LET obj == results[idx + 1]
             task == IF obj.kind = "Database"
                     THEN Listing("DatabaseQuery",
                                  PaginationInfo_new("ObjectList<AnyObject>", obj.id))
                     ELSE Single("Page", obj.id)
         IN <<TaskOp(task), ResOp(OkItem(obj.kind, obj.id, 0))>>
            \o QueryDatabaseLoopPageFetch(results, idx + 1)
RECURSIVE QueryDatabaseLoop(_, _)
QueryDatabaseLoop(results, idx) ==
    IF idx >= Len(results) THEN <<>>
    ELSE LET obj == results[idx + 1]
             task == IF obj.kind = "Database"
                     THEN Listing("DatabaseQuery",
                                  PaginationInfo_new("ObjectList<AnyObject>", obj.id))
                     ELSE Listing("BlockChildren",
                                  PaginationInfo_new("ObjectList<Block>", obj.id))
         IN <<TaskOp(task), ResOp(OkItem(obj.kind, obj.id, 0))>>
            \o QueryDatabaseLoop(results, idx + 1)

\* do_task, TaskOutput::Comments: the loop over the page from idx on.
RECURSIVE CommentsLoopWithChildren(_, _)
CommentsLoopWithChildren(results, idx) ==
    IF idx >= Len(results) THEN <<>>
    ELSE <<TaskOp(Listing("BlockChildren",
                          PaginationInfo_new("ObjectList<Block>", results[idx + 1].id))),
           ResOp(OkItem("Comment", results[idx + 1].id, 0))>>
         \o CommentsLoopWithChildren(results, idx + 1)
RECURSIVE CommentsLoop(_, _)
CommentsLoop(results, idx) ==
    IF idx >= Len(results) THEN <<>>
    ELSE <<ResOp(OkItem("Comment", results[idx + 1].id, 0))>>
         \o CommentsLoop(results, idx + 1)

\* do_task, TaskOutput::Page.
PageOpsTwice(page) ==
    <<TaskOp(Listing("BlockChildren", PaginationInfo_new("ObjectList<Block>", page.id))),
      TaskOp(Listing("Comments", PaginationInfo_new("ObjectList<Comment>", page.id))),
      ResOp(OkItem("Page", page.id, 0)), ResOp(OkItem("Page", page.id, 0))>>
PageOpsNoComments(page) ==
    <<TaskOp(Listing("BlockChildren", PaginationInfo_new("ObjectList<Block>", page.id))),
      ResOp(OkItem("Page", page.id, 0))>>
PageOps(page) ==
    <<TaskOp(Listing("BlockChildren", PaginationInfo_new("ObjectList<Block>", page.id))),
      TaskOp(Listing("Comments", PaginationInfo_new("ObjectList<Comment>", page.id))),
      ResOp(OkItem("Page", page.id, 0))>>

\* do_task, TaskOutput::Database.
DatabaseOps(database) ==
    <<TaskOp(Listing("DatabaseQuery",
                     PaginationInfo_new("ObjectList<Block>", database.id))),
      ResOp(OkItem("Database", database.id, 0))>>

\* do_task, TaskOutput::Block.
BlockOpsNoRecord(block) == OptTaskOp(get_task_for_block(block))
BlockOpsRecordFirst(block) ==
    <<ResOp(OkItem("Block", block.id, block.child_index))>>
    \o OptTaskOp(get_task_for_block(block))
BlockOps(block) ==
    OptTaskOp(get_task_for_block(block))
    \o <<ResOp(OkItem("Block", block.id, block.child_index))>>

\* do_task, the Err arm.
ErrOpsTwice(e) == <<ResOp(ErrItem(e)), ResOp(ErrItem(e))>>
ErrOps(e) == <<ResOp(ErrItem(e))>>

\* One pass of the loop body of do_request: the API call of the task's
\* ReqType on the exchange res.
api_call(task, res) ==
    IF IsListing(task) THEN next_page(task.pagination[1], res)
    ELSE get_object(res)

\* do_task: the match on the result of do_request.
do_task_ops_prefetch(task, r) ==
    IF ~r.ok THEN ErrOps(r.err[1])
    ELSE CASE task.kind = "Page" -> PageOps(r.val)
           [] task.kind = "Database" -> DatabaseOps(r.val)
           [] task.kind = "Block" -> BlockOps(r.val)
           [] task.kind = "BlockChildren" ->
                NextPageOp("BlockChildren", r.val.pagination)
                \o BlockChildrenLoop(r.val.result.results, r.val.result.start_index, 0)
           [] task.kind = "DatabaseQuery" ->
                QueryDatabaseLoop(r.val.result.results, 0)
                \o NextPageOp("DatabaseQuery", r.val.pagination)
           [] task.kind = "Comments" ->
                CommentsLoop(r.val.result.results, 0)
                \o NextPageOp("Comments", r.val.pagination)
do_task_ops(task, r) ==
    IF ~r.ok THEN ErrOps(r.err[1])
    ELSE CASE task.kind = "Page" -> PageOps(r.val)
           [] task.kind = "Database" -> DatabaseOps(r.val)
           [] task.kind = "Block" -> BlockOps(r.val)
           [] task.kind = "BlockChildren" ->
                BlockChildrenLoop(r.val.result.results, r.val.result.start_index, 0)
                \o NextPageOp("BlockChildren", r.val.pagination)
           [] task.kind = "DatabaseQuery" ->
                QueryDatabaseLoop(r.val.result.results, 0)
                \o NextPageOp("DatabaseQuery", r.val.pagination)
           [] task.kind = "Comments" ->
                CommentsLoop(r.val.result.results, 0)
                \o NextPageOp("Comments", r.val.pagination)

----------------------------------------------------------------------------
\* The consumer: src/main.rs run_sync and src/db.rs.

\* The tables of SQL_SCHEMA; each has `id TEXT not null primary key`.
Tables == {"blocks", "pages", "databases", "comments"}

\* The store after init_db on a new file, and the key set of run_sync.
EmptyDb == [objects |-> {}, blocks |-> {}, pages |-> {}, databases |-> {},
            comments |-> {}]

\* The table a record goes to; a User record goes to none.
TableOf(item) ==
    CASE item.type = "Block" -> "blocks"
      [] item.type = "Page" -> "pages"
      [] item.type = "Database" -> "databases"
      [] item.type = "Comment" -> "comments"
      [] OTHER -> "none"

\* The values bound by insert_or_update_*: the row of a record.  Only the
\* blocks table has a child_index column.
Row(item) ==
    IF item.type = "Block"
    THEN [id |-> item.id, child_index |-> item.child_index]
    ELSE [id |-> item.id, child_index |-> 0]

\* "insert or replace into <table> values (...)" on a table whose primary
\* key is id: the row of that id, if any, gives way to the new row.
InsertOnly(rows, row) == rows \cup {row}
InsertOrReplace(rows, row) == {r \in rows : r.id # row.id} \cup {row}

\* run_sync: the body of the loop on one item of the stream.  An error is
\* reported and nothing is stored; a record's key is noted, and the record
\* is stored in the table of its type.
run_sync_item(store, item) ==
    IF ~item.ok THEN store
    ELSE LET noted == [store EXCEPT !.objects = @ \cup {<<item.id, item.type>>}]
         IN CASE item.type = "Block" ->
                   [noted EXCEPT !.blocks = InsertOrReplace(@, Row(item))]
              [] item.type = "Page" ->
                   [noted EXCEPT !.pages = InsertOrReplace(@, Row(item))]
              [] item.type = "Database" ->
                   [noted EXCEPT !.databases = InsertOrReplace(@, Row(item))]
              [] item.type = "Comment" ->
                   [noted EXCEPT !.comments = InsertOrReplace(@, Row(item))]
              [] OTHER -> noted

\* The last record consumed, per table and id.
NoneConsumed == [k \in Tables \X Ids |-> None]
Consumed(l, item) ==
    IF item.ok /\ TableOf(item) \in Tables
    THEN [l EXCEPT ![<<TableOf(item), item.id>>] = Some(item)]
    ELSE l

----------------------------------------------------------------------------
\* The crawl: Fetcher::fetch, do_task_recurs, do_task, do_request.

Tasks == 1..Len(nodes)

\* A task as it sits in the hand-off queue of its parent.  `listing` is the
\* first-page task of the listing the task belongs to (itself otherwise);
\* nsent, nreq, nthrottled, resp and cause record the history of the
\* execution: the items sent, the requests issued, the throttling responses
\* received, the kind of the last response and what made it fail; hint is
\* the Retry-After of a throttling last response and waited the seconds
\* that have passed since it arrived (counted up to hint); pending tells
\* that the task had a request still to issue when the consumer dropped the
\* stream; page is the has_more flag and the continuation token of the
\* listing page the task was answered with.
NewNode(task, parent, listing) ==
    [task |-> task, parent |-> parent, listing |-> listing,
     pc |-> "queued", ops |-> <<>>, sleep |-> 0,
     queue |-> <<>>, parked |-> FALSE, task_tx |-> FALSE, drainer |-> "none",
     nsent |-> 0, nreq |-> 0, nthrottled |-> 0, resp |-> "none",
     cause |-> "none", hint |-> 0, waited |-> 0, pending |-> FALSE,
     page |-> None]

\* Fetcher::fetch: the initial task for the root id.
InitialTaskPage(id) == Single("Page", id)
InitialTask(id) == Single("Block", id)

\* Fetcher::fetch: the output channel, the initial task, the spawn.
Init ==
    /\ world \in Worlds
    /\ nodes = <<[NewNode(InitialTask(world.root), 0, 1) EXCEPT !.pc = "spawned"]>>
    /\ out = <<>>
    /\ resParked = <<>>
    /\ resSenders = 1
    /\ got = {}
    /\ tokens = Burst
    /\ throttles = 0
    /\ rx = "open"
    /\ db = EmptyDb
    /\ latest = NoneConsumed

\* do_task_recurs up to the first await of do_task: the hand-off channel is
\* made, the drain loop is spawned with a clone of res_tx, do_task gets
\* another clone and the only task_tx.
Started(n) ==
    [n EXCEPT !.pc = "acquire", !.task_tx = TRUE, !.drainer = "idle"]

\* The spawned future of fetch starts running.
StartRoot ==
    /\ nodes[1].pc = "spawned"
    /\ nodes' = [nodes EXCEPT ![1] = Started(@)]
    /\ resSenders' = resSenders + 2
    /\ UNCHANGED <<db, latest, world, rx, out, resParked, got, tokens, throttles>>

\* do_request: rate_limiter.acquire().
Acquire(t) ==
    /\ nodes[t].pc = "acquire"
    /\ tokens > 0
    /\ tokens' = tokens - 1
    /\ nodes' = [nodes EXCEPT ![t].pc = "request"]
    /\ UNCHANGED <<db, latest, world, rx, out, resParked, resSenders, got, throttles>>

\* What the upstream meant by an exchange: a throttling response (429 with
\* a Retry-After in whole seconds), a success, or a fatal failure.
ResponseClass(res) ==
    IF res.sent /\ res.status = 429 /\ res.retry # None /\ res.retry[1].parses
    THEN "throttled"
    ELSE IF res.sent /\ res.status = 200 /\ res.decodes THEN "ok"
    ELSE "fatal"

\* Whether an exchange failed for want of a usable cool-down hint: a 429
\* without a Retry-After in whole seconds ("hint"), or for another reason.
ResponseCause(res) ==
    IF ResponseClass(res) # "fatal" THEN "none"
    ELSE IF res.sent /\ res.status = 429 THEN "hint"
    ELSE "other"

\* do_request: the pause before the next attempt, in seconds.
PauseMillis(secs) == 0
Pause(secs) == secs

\* do_request: whether the loop goes round again on the result r.
RetriesNever(r) == FALSE
Retries(r) == ~r.ok /\ r.err[1].class = "RetryAfter"

\* do_request: the request and its response; then either the sleep of the
\* retry loop, or the break and the match of do_task up to its first send.
Request(t) ==
    /\ nodes[t].pc = "request"
    /\ \E res \in FinalResponses(world, nodes[t].task)
                  \cup {Throttled(secs) : secs \in 1..MaxRetryAfter} :
         LET r == api_call(nodes[t].task, res)
             class == ResponseClass(res)
             seen == [nodes[t] EXCEPT !.nreq = @ + 1, !.resp = class,
                        !.cause = ResponseCause(res),
                        !.hint = IF class = "throttled" THEN res.retry[1].secs ELSE 0,
                        !.waited = 0,
                        !.nthrottled = IF class = "throttled" THEN @ + 1 ELSE @,
                        !.page = IF class = "ok" /\ IsListing(nodes[t].task)
                                 THEN Some(res.value.next_page_info) ELSE None]
         IN
         /\ class = "throttled" => (world.throttling /\ throttles < MaxThrottle)
         /\ throttles' = IF class = "throttled" THEN throttles + 1 ELSE throttles
         /\ nodes' = [nodes EXCEPT ![t] =
                        IF Retries(r)
                        THEN [seen EXCEPT !.pc = "sleep",
                                          !.sleep = Pause(r.err[1].secs)]
                        ELSE [seen EXCEPT !.pc = "process",
                                          !.ops = do_task_ops(nodes[t].task, r)]]
    /\ UNCHANGED <<db, latest, world, rx, out, resParked, resSenders, got, tokens>>

\* One second passes: sleepers get closer to waking, the limiter refills.
\* Time is advanced only while some task waits for it.
Tick ==
    /\ \/ tokens = 0 /\ \E t \in Tasks : nodes[t].pc = "acquire"
       \/ \E t \in Tasks : nodes[t].pc = "sleep" /\ nodes[t].sleep > 0
    /\ tokens' = Min(Burst, tokens + Rate)
    /\ nodes' = [t \in Tasks |->
                   [nodes[t] EXCEPT
                      !.sleep = IF nodes[t].pc = "sleep" /\ @ > 0 THEN @ - 1 ELSE @,
                      !.waited = IF @ < nodes[t].hint THEN @ + 1 ELSE @]]
    /\ UNCHANGED <<db, latest, world, rx, out, resParked, resSenders, got, throttles>>

\* do_request: tokio::time::sleep is over, the loop goes round.
WakeNoAcquire(t) ==
    /\ nodes[t].pc = "sleep"
    /\ nodes[t].sleep = 0
    /\ nodes' = [nodes EXCEPT ![t].pc = "request"]
    /\ UNCHANGED <<db, latest, world, rx, out, resParked, resSenders, got, tokens, throttles>>
Wake(t) ==
    /\ nodes[t].pc = "sleep"
    /\ nodes[t].sleep = 0
    /\ nodes' = [nodes EXCEPT ![t].pc = "acquire"]
    /\ UNCHANGED <<db, latest, world, rx, out, resParked, resSenders, got, tokens, throttles>>

\* A sender of a bounded futures channel may send when it is not parked.
CanSendWhileParked(t) == \A i \in 1..Len(resParked) : resParked[i] # t
CanSend(t) == ~nodes[t].parked /\ \A i \in 1..Len(resParked) : resParked[i] # t

\* do_task: task_tx.send(task).await: the task joins the hand-off queue of
\* node t, and the sender parks when the queue is over its buffer.  The
\* receiver is alive unless the drain loop of t has panicked.
SendTask(t) ==
    /\ nodes[t].pc = "process"
    /\ nodes[t].ops # <<>>
    /\ Head(nodes[t].ops).ch = "task"
    /\ CanSend(t)
    /\ nodes[t].drainer # "panicked"
    /\ LET task == Head(nodes[t].ops).task
           c == Len(nodes) + 1
           listing == IF IsListing(task) /\ task.pagination[1].cursor # None
                      THEN nodes[t].listing ELSE c
       IN nodes' = Append([nodes EXCEPT ![t].ops = Tail(@),
                                        ![t].queue = Append(@, c),
                                        ![t].parked = Len(nodes[t].queue) + 1 > TaskBuffer],
                          NewNode(task, t, listing))
    /\ UNCHANGED <<db, latest, world, rx, out, resParked, resSenders, got, tokens, throttles>>

\* do_task: res_tx.send(item).await: the item joins the output channel, and
\* the sender parks when the channel is over its buffer.  The receiver is
\* alive while the consumer holds the stream.
SendRes(t) ==
    /\ nodes[t].pc = "process"
    /\ nodes[t].ops # <<>>
    /\ Head(nodes[t].ops).ch = "res"
    /\ CanSend(t)
    /\ rx = "open"
    /\ out' = Append(out, [item |-> Head(nodes[t].ops).item[1],
                           task |-> t, n |-> nodes[t].nsent])
    /\ resParked' = IF Len(out) + 1 > ResBuffer THEN Append(resParked, t)
                    ELSE resParked
    /\ nodes' = [nodes EXCEPT ![t].ops = Tail(@), ![t].nsent = @ + 1]
    /\ UNCHANGED <<db, latest, world, rx, resSenders, got, tokens, throttles>>

\* The drain loop of a node: task_rx.next() yields None when the queue is
\* empty and task_tx is gone.
ChannelClosedWhenEmpty(n) == n.queue = <<>>
ChannelClosed(n) == n.queue = <<>> /\ ~n.task_tx

\* The drain loop of node p, when the do_task_recurs it awaited (that of
\* child) has returned: the loop ends only on task_rx.next() yielding None,
\* whatever the child's outcome was.
DrainLoopEndsAfterFailure(p, child) == ChannelClosed(p) \/ child.resp = "fatal"
DrainLoopNeverEnds(p, child) == FALSE
DrainLoopEnds(p, child) == ChannelClosed(p)

\* do_task returns: task_tx and the res_tx clone of do_task are dropped;
\* do_task_recurs returns: its res_tx is dropped, and the drain loop that
\* awaited it (the parent's) goes back to task_rx.next().  A drain loop that
\* is then at task_rx.next() on a closed channel (that of t, that of the
\* parent) ends and drops its res_tx.
Finish(t) ==
    /\ nodes[t].pc = "process"
    /\ nodes[t].ops = <<>>
    /\ CanSend(t)
    /\ LET self == [nodes[t] EXCEPT !.pc = "done", !.task_tx = FALSE]
           p == nodes[t].parent
           ownEnds == self.drainer = "idle" /\ ChannelClosed(self)
           parEnds == p # 0 /\ DrainLoopEnds(nodes[p], self)
       IN /\ nodes' = [i \in Tasks |->
                         IF i = t
                         THEN [self EXCEPT !.drainer = IF ownEnds THEN "ended" ELSE @]
                         ELSE IF i = p
                         THEN [nodes[i] EXCEPT
                                 !.drainer = IF parEnds THEN "ended" ELSE "idle"]
                         ELSE nodes[i]]
          /\ resSenders' = resSenders - 2 - (IF ownEnds THEN 1 ELSE 0)
                                          - (IF parEnds THEN 1 ELSE 0)
    /\ UNCHANGED <<db, latest, world, rx, out, resParked, got, tokens, throttles>>

\* The drain loop of node p: task_rx.next() yields a task, which unparks the
\* sender, and do_task_recurs(task, res_tx.clone()) runs up to its first await.
DrainNextNoUnpark(p) ==
    /\ nodes[p].drainer = "idle"
    /\ nodes[p].queue # <<>>
    /\ LET c == Head(nodes[p].queue) IN
       nodes' = [i \in Tasks |->
                   IF i = p THEN [nodes[i] EXCEPT !.queue = Tail(@),
                                                  !.drainer = "busy"]
                   ELSE IF i = c THEN Started(nodes[i])
                   ELSE nodes[i]]
    /\ resSenders' = resSenders + 3
    /\ UNCHANGED <<db, latest, world, rx, out, resParked, got, tokens, throttles>>
DrainNextSpawned(p) ==
    /\ nodes[p].drainer \in {"idle", "busy"}
    /\ nodes[p].queue # <<>>
    /\ LET c == Head(nodes[p].queue) IN
       nodes' = [i \in Tasks |->
                   IF i = p THEN [nodes[i] EXCEPT !.queue = Tail(@),
                                                  !.parked = FALSE,
                                                  !.drainer = "busy"]
                   ELSE IF i = c THEN Started(nodes[i])
                   ELSE nodes[i]]
    /\ resSenders' = resSenders + 3
    /\ UNCHANGED <<db, latest, world, rx, out, resParked, got, tokens, throttles>>
DrainNext(p) ==
    /\ nodes[p].drainer = "idle"
    /\ nodes[p].queue # <<>>
    /\ LET c == Head(nodes[p].queue) IN
       nodes' = [i \in Tasks |->
                   IF i = p THEN [nodes[i] EXCEPT !.queue = Tail(@),
                                                  !.parked = FALSE,
                                                  !.drainer = "busy"]
                   ELSE IF i = c THEN Started(nodes[i])
                   ELSE nodes[i]]
    /\ resSenders' = resSenders + 3
    /\ UNCHANGED <<db, latest, world, rx, out, resParked, got, tokens, throttles>>

\* The consumer takes the next item of the stream, which unparks the sender
\* parked longest.
Consume ==
    /\ rx = "open"
    /\ out # <<>>
    /\ got' = got \cup {Head(out)}
    /\ out' = Tail(out)
    /\ resParked' = IF resParked = <<>> THEN <<>> ELSE Tail(resParked)
    /\ db' = run_sync_item(db, Head(out).item)
    /\ latest' = Consumed(latest, Head(out).item)
    /\ UNCHANGED <<world, rx, nodes, resSenders, tokens, throttles>>

Next ==
    \/ StartRoot
    \/ \E t \in Tasks : Acquire(t)
    \/ \E t \in Tasks : Request(t)
    \/ Tick
    \/ \E t \in Tasks : Wake(t)
    \/ \E t \in Tasks : SendTask(t)
    \/ \E t \in Tasks : SendRes(t)
    \/ \E t \in Tasks : Finish(t)
    \/ \E p \in Tasks : DrainNext(p)
    \/ Consume

Spec == Init /\ [][Next]_vars

----------------------------------------------------------------------------
\* The consumer drops the stream.

\* The consumer drops res_rx: the channel is closed, the items still in it
\* are dropped with it, and the senders parked on it are released (a send
\* whose item is already in the channel completes).
Cancel ==
    /\ rx = "open"
    /\ rx' = "dropped"
    /\ out' = <<>>
    /\ resParked' = <<>>
    /\ nodes' = [t \in Tasks |->
                   [nodes[t] EXCEPT
                      !.pending = nodes[t].pc \in {"queued", "acquire", "sleep"}]]
    /\ UNCHANGED <<db, latest, world, resSenders, got, tokens, throttles>>

\* A send of do_task returns Err and its unwrap() panics: the tokio task
\* that runs the do_task of t unwinds.  For the root that is the task
\* spawned by fetch; for another task it is the drain loop of its parent p,
\* which awaits do_task_recurs(t): the loop dies with its task_rx, so the
\* tasks still queued there are dropped and the do_task of p is released if
\* it was parked on that queue.  The drain loop of t is a task of its own
\* and lives on, with task_tx gone.
UnwoundKeepsSender(t) ==
    [i \in Tasks |->
       IF i = t THEN [nodes[t] EXCEPT !.pc = "panicked", !.ops = <<>>]
       ELSE IF i = nodes[t].parent
       THEN [nodes[i] EXCEPT !.drainer = "panicked", !.parked = FALSE]
       ELSE nodes[i]]
Unwound(t) ==
    LET p == nodes[t].parent
        lost == IF p = 0 THEN {}
                ELSE {nodes[p].queue[i] : i \in 1..Len(nodes[p].queue)}
        ownEnds == nodes[t].drainer = "idle" /\ nodes[t].queue = <<>>
    IN [i \in Tasks |->
          IF i = t
          THEN [nodes[t] EXCEPT !.pc = "panicked", !.ops = <<>>,
                                !.task_tx = FALSE, !.parked = FALSE,
                                !.drainer = IF ownEnds THEN "ended" ELSE @]
          ELSE IF i = p
          THEN [nodes[p] EXCEPT !.drainer = "panicked", !.queue = <<>>,
                                !.parked = FALSE]
          ELSE IF i \in lost THEN [nodes[i] EXCEPT !.pc = "dropped"]
          ELSE nodes[i]]

\* The res_tx handles the unwinding drops: those of do_task and
\* do_task_recurs of t, that of the drain loop of t if it ends, that of the
\* drain loop of the parent.
UnwoundHandles(t) ==
    2 + (IF nodes[t].drainer = "idle" /\ nodes[t].queue = <<>> THEN 1 ELSE 0)
      + (IF nodes[t].parent # 0 THEN 1 ELSE 0)

\* do_task: res_tx.send(item).await.unwrap() when the consumer is gone.
PanicRes(t) ==
    /\ nodes[t].pc = "process"
    /\ nodes[t].ops # <<>>
    /\ Head(nodes[t].ops).ch = "res"
    /\ CanSend(t)
    /\ rx = "dropped"
    /\ nodes' = Unwound(t)
    /\ resSenders' = resSenders - UnwoundHandles(t)
    /\ UNCHANGED <<db, latest, world, rx, out, resParked, got, tokens, throttles>>

\* do_task: task_tx.send(task).await.unwrap() when the drain loop of t has
\* panicked.
PanicTask(t) ==
    /\ nodes[t].pc = "process"
    /\ nodes[t].ops # <<>>
    /\ Head(nodes[t].ops).ch = "task"
    /\ CanSend(t)
    /\ nodes[t].drainer = "panicked"
    /\ nodes' = Unwound(t)
    /\ resSenders' = resSenders - UnwoundHandles(t)
    /\ UNCHANGED <<db, latest, world, rx, out, resParked, got, tokens, throttles>>

\* A crawl whose consumer may drop the stream at any moment.
CancelWorlds == {WorldPage, WorldNest}
CancelInit == Init /\ world \in CancelWorlds
CancelNext ==
    \/ Next
    \/ Cancel
    \/ \E t \in Tasks : PanicRes(t)
    \/ \E t \in Tasks : PanicTask(t)

CancelSpec == CancelInit /\ [][CancelNext]_vars /\ WF_vars(CancelNext)

\* The runtime polls every future that can make progress, time passes, and
\* the consumer keeps taking items.
FairSpec == Spec /\ WF_vars(Next)

----------------------------------------------------------------------------
\* What an observer of a crawl sees.

\* The output stream has closed: every res_tx handle is gone.
Closed == resSenders = 0

\* The items emitted so far, each with the task that sent it.
Emitted == {out[i] : i \in 1..Len(out)} \cup got
ItemsOf(t) == {e \in Emitted : e.task = t}
RecordsOf(t) == {e \in ItemsOf(t) : e.item.ok}

\* The follow-up tasks enqueued by t.
Children(t) == {c \in Tasks : nodes[c].parent = t}

\* s is in the subtree of the task tree rooted at x.
RECURSIVE IsUnder(_, _)
IsUnder(s, x) == s # 0 /\ (s = x \/ IsUnder(nodes[s].parent, x))

\* The page tasks of the listing whose first-page task is l.
Chain(l) == {t \in Tasks : nodes[t].listing = l}

----------------------------------------------------------------------------
\* Paging.

\* The first-page tasks of the block-children listings.
BlockListings ==
    {l \in Tasks : nodes[l].task.kind = "BlockChildren" /\ nodes[l].listing = l}

\* Every page request of the listing l has succeeded, and every page has
\* been processed to its end.
ListingSucceeded(l) ==
    \A t \in Chain(l) : nodes[t].pc = "done" /\ nodes[t].resp = "ok"

BlockRecordsOf(l) ==
    {e \in Emitted : e.task \in Chain(l) /\ e.item.ok /\ e.item.type = "Block"}

\* C1: for every block-children listing that holds N items upstream, however
\* the upstream splits them into pages, when every page request of the
\* listing has succeeded the crawl has emitted exactly N Block records for
\* it, and their positions (child_index) are exactly 0..N-1, with no
\* duplicate and no gap, the record at position i being the i-th item.
PositionsExact ==
    \A l \in BlockListings :
        ListingSucceeded(l) =>
            LET items == world.children[nodes[l].task.id]
                N == Len(items)
                recs == BlockRecordsOf(l)
            IN /\ Cardinality(recs) = N
               /\ {e.item.child_index : e \in recs} = 0..(N - 1)
               /\ \A e \in recs : e.item.id = items[e.item.child_index + 1]

\* A listing of three items that the upstream returned in three pages, all
\* processed.
PositionsExactWitness ==
    \E l \in BlockListings :
        /\ ListingSucceeded(l)
        /\ Cardinality(Chain(l)) = 3
        /\ Len(world.children[nodes[l].task.id]) = 3

----------------------------------------------------------------------------
\* Throttling.

\* The tasks that have received a throttling response.
ThrottledTasks == {t \in Tasks : nodes[t].nthrottled > 0}

\* A throttled attempt of t leaves no trace (t is in the pause or on its way
\* to the next attempt); once t has been answered with a success, it has no
\* error item, none of its records twice, and a single fetch that is over
\* has exactly its one record.
ThrottledTaskIntact(t) ==
    /\ nodes[t].resp = "throttled" =>
          /\ nodes[t].pc \in {"sleep", "acquire", "request"}
          /\ ItemsOf(t) = {}
          /\ Children(t) = {}
    /\ nodes[t].resp = "ok" =>
          /\ \A e \in ItemsOf(t) : e.item.ok
          /\ \A e, f \in ItemsOf(t) : e.item.id = f.item.id => e = f
          /\ (nodes[t].pc = "done" /\ ~IsListing(nodes[t].task)) =>
                /\ Cardinality(ItemsOf(t)) = 1
                /\ \A e \in ItemsOf(t) : /\ e.item.type = nodes[t].task.kind
                                         /\ e.item.id = nodes[t].task.id

ThrottledIntact == \A t \in ThrottledTasks : ThrottledTaskIntact(t)

SomeThrottled == ThrottledTasks # {}
ThrottledSettled == \A t \in ThrottledTasks : nodes[t].pc = "done"

\* C2: a task that receives throttling responses (429 with a valid
\* Retry-After) is resumed each time and is never abandoned: it always goes on
\* to the end of its execution, and when the upstream answers it with a
\* success its records are emitted exactly once and no error item is emitted
\* for it.
ThrottledCompletes ==
    /\ []ThrottledIntact
    /\ SomeThrottled ~> ThrottledSettled

\* The root fetch was throttled twice in a row, then succeeded: the crawl is
\* over and the root has emitted its one Block record.
ThrottledCompletesWitness ==
    /\ Closed
    /\ nodes[1].nthrottled = 2
    /\ nodes[1].nreq = 3
    /\ nodes[1].resp = "ok"
    /\ Cardinality(RecordsOf(1)) = 1

----------------------------------------------------------------------------
\* Failures.

\* The request of t ended in a fatal failure.
Fatal(t) == nodes[t].resp = "fatal"
FatalTasks == {t \in Tasks : Fatal(t)}

\* C3: for every task whose request ends in a fatal failure (a non-2xx
\* status other than a valid throttle, an undecodable body, a transport
\* failure), the request is not retried, no record is emitted for the task,
\* no follow-up task is enqueued from it, and the only item it emits is one
\* error item: exactly one once its execution is over.
FatalYieldsOneError ==
    \A t \in FatalTasks :
        /\ nodes[t].pc \in {"process", "done"}
        /\ nodes[t].nreq = nodes[t].nthrottled + 1
        /\ RecordsOf(t) = {}
        /\ \A e \in ItemsOf(t) : /\ e.item.type = "Error"
                                 /\ e.item.class \in {"InvalidResponse", "Other"}
        /\ Cardinality(ItemsOf(t)) <= 1
        /\ nodes[t].pc = "done" => Cardinality(ItemsOf(t)) = 1
        /\ Children(t) = {}
        /\ nodes[t].queue = <<>>

\* A page task of a listing has failed after a throttled attempt, its
\* execution is over and the consumer has taken its error item.
FatalYieldsOneErrorWitness ==
    \E t \in FatalTasks :
        /\ IsListing(nodes[t].task)
        /\ nodes[t].pc = "done"
        /\ nodes[t].nthrottled = 1
        /\ \E e \in got : e.task = t /\ ~e.item.ok

\* Some task has failed; every task is over.
SomeFatal == FatalTasks # {}
AllExecuted == \A t \in Tasks : nodes[t].pc = "done"

\* While a task outside the subtree of a failed one is not over, the stream
\* is open.
FailureIsLocal ==
    \A x \in FatalTasks : \A s \in Tasks :
        (~IsUnder(s, x) /\ nodes[s].pc # "done") => ~Closed

\* C4: a fatal failure of a task ends only the subtree of that task: the
\* output stream stays open while any task outside that subtree (a sibling
\* enqueued before or after it, a cousin in another branch) is still to be
\* executed, and every such task is executed to its end.
FailureEndsOnlySubtree ==
    /\ []FailureIsLocal
    /\ SomeFatal ~> (Closed /\ AllExecuted)

\* The crawl is over; a task x failed after its parent had succeeded; the
\* sibling of that parent, enqueued after it, succeeded, and so did the
\* follow-up of that sibling, a cousin of x: both emitted their records.
Siblings(s, x) == s # x /\ nodes[s].parent = nodes[x].parent
Succeeded(s) == nodes[s].pc = "done" /\ nodes[s].resp = "ok" /\ RecordsOf(s) # {}
FailureEndsOnlySubtreeWitness ==
    /\ Closed
    /\ \E x, s \in Tasks :
          /\ Fatal(x)
          /\ nodes[x].parent # 0
          /\ nodes[s].parent # 0
          /\ Siblings(nodes[s].parent, nodes[x].parent)
          /\ nodes[x].parent < nodes[s].parent
          /\ Succeeded(nodes[x].parent)
          /\ Succeeded(nodes[s].parent)
          /\ Succeeded(s)

----------------------------------------------------------------------------
\* The end of a crawl.

\* C5: on every finite content tree, when the consumer keeps taking items and
\* no task is throttled for ever, the crawl terminates: every discovered task
\* is executed to its end, the output stream closes and the consumer has
\* taken every item, whether or not some tasks failed.
CrawlTerminates == <>(Closed /\ AllExecuted /\ out = <<>>)

\* A crawl of four tasks or more is over, one of its tasks having been
\* throttled and one having failed.
CrawlTerminatesWitness ==
    /\ Closed
    /\ AllExecuted
    /\ out = <<>>
    /\ Len(nodes) >= 4
    /\ SomeFatal
    /\ SomeThrottled

\* Nothing is left to do: no task queued, no execution in flight, no send
\* pending, no drain loop alive.
Exhausted ==
    /\ \A t \in Tasks : /\ nodes[t].pc = "done"
                        /\ nodes[t].ops = <<>>
                        /\ nodes[t].queue = <<>>
                        /\ nodes[t].drainer = "ended"
    /\ resParked = <<>>

\* C6: the output stream is never closed early: whenever the stream has
\* closed (all its senders are gone) no task is queued in a hand-off queue and
\* no execution is in flight, so nothing a discovered task produces is lost;
\* and from then on the stream stays closed and nothing more is emitted.
NeverClosedEarly ==
    /\ [](Closed => Exhausted)
    /\ [][Closed => (Closed' /\ Emitted' = Emitted /\ nodes' = nodes)]_vars

\* The stream has closed on a crawl of six tasks while the consumer still
\* has an item to take.
NeverClosedEarlyWitness == Closed /\ Len(nodes) >= 6 /\ out # <<>>

----------------------------------------------------------------------------
\* Pages.

PageRecords == {e \in Emitted : e.item.ok /\ e.item.type = "Page"}

\* A request of the listing `kind` of id has been issued.
Issued(kind, id) ==
    \E t \in Tasks : /\ nodes[t].task.kind = kind
                     /\ nodes[t].task.id = id
                     /\ nodes[t].nreq > 0

\* C7: for every Page record the crawl emits, by whatever route the page was
\* discovered (a child-page block, an item of a database-query listing), the
\* crawl issues both the block-children listing and the comments listing of
\* that page: at the end of a crawl both have been requested.
PageListingsIssued ==
    (Closed /\ AllExecuted) =>
        \A e \in PageRecords : /\ Issued("BlockChildren", e.item.id)
                               /\ Issued("Comments", e.item.id)

\* The Block records of the blocks whose subtype is child page.
ChildPageRecords ==
    {e \in Emitted : /\ e.item.ok
                     /\ e.item.type = "Block"
                     /\ world.block_type[e.item.id] = "child_page"}

\* C8: a block whose subtype is child page, whatever its has-children flag,
\* produces exactly one follow-up, the single-page fetch of the same id, and
\* no block-children follow-up: every block-children task on the id of such
\* a block was enqueued by the page fetch of that id, or is a next page of that
\* listing.
ChildPageYieldsPageFetch ==
    /\ \A e \in ChildPageRecords :
          \E c \in Children(e.task) :
             /\ nodes[c].task = Single("Page", e.item.id)
             /\ \A d \in Children(e.task) : nodes[d].task.id = e.item.id => d = c
    /\ \A t \in Tasks :
          (/\ nodes[t].task.kind = "BlockChildren"
           /\ world.block_type[nodes[t].task.id] = "child_page") =>
             /\ nodes[t].parent # 0
             /\ nodes[nodes[t].parent].task.id = nodes[t].task.id
             /\ nodes[nodes[t].parent].task.kind \in
                   IF nodes[t].listing = t THEN {"Page"} ELSE {"BlockChildren"}

\* The block of a child page that says it has children has been emitted, the
\* page fetch it produced has succeeded, and the block-children listing
\* enqueued by that page fetch has emitted the children.
ChildPageYieldsPageFetchWitness ==
    \E e \in ChildPageRecords :
        /\ e.item.id \in world.has_children
        /\ \E c \in Children(e.task) :
              /\ nodes[c].task = Single("Page", e.item.id)
              /\ Succeeded(c)
              /\ \E l \in Children(c) :
                    /\ nodes[l].task.kind = "BlockChildren"
                    /\ Succeeded(l)

----------------------------------------------------------------------------
\* The crawl of a page.

\* The crawl of the page of three blocks and no comment is over, every
\* request has succeeded and the consumer has taken the whole output.
PageCrawlDone ==
    /\ world = WorldPage
    /\ Closed
    /\ out = <<>>
    /\ \A t \in Tasks : nodes[t].pc = "done" /\ nodes[t].resp = "ok"
                        /\ nodes[t].nthrottled = 0

GotOf(type) == {e \in got : e.item.ok /\ e.item.type = type}

\* C9, as claimed: when the root id is a block that represents a page with
\* three top-level blocks and no comment and every request succeeds, the
\* complete output is exactly 1 Page record and 3 Block records with positions
\* 0, 1 and 2, and no other record or error item.
RootPageOutputAsClaimed ==
    PageCrawlDone =>
        /\ Cardinality(GotOf("Page")) = 1
        /\ Cardinality(GotOf("Block")) = 3
        /\ {e.item.child_index : e \in GotOf("Block")} = {0, 1, 2}
        /\ Cardinality(got) = 4

\* C9, amended: the complete output of that crawl is exactly 1 Page record
\* and 4 Block records: the record of the root block itself, with position 0,
\* and the records of the three blocks of the page with positions 0, 1 and
\* 2; there is no other record and no error item.
RootPageOutput ==
    PageCrawlDone =>
        /\ {e.item : e \in GotOf("Page")} = {OkItem("Page", "P1", 0)}
        /\ Cardinality(GotOf("Page")) = 1
        /\ {e.item : e \in GotOf("Block")} =
              {OkItem("Block", "P1", 0), OkItem("Block", "B1", 0),
               OkItem("Block", "B2", 1), OkItem("Block", "B3", 2)}
        /\ Cardinality(GotOf("Block")) = 4
        /\ Cardinality(got) = 5

\* That crawl is over and its output is the five records.
RootPageOutputWitness == PageCrawlDone /\ Cardinality(got) = 5

----------------------------------------------------------------------------
\* Throttling and the consumer.

\* C10: throttling is never visible to the consumer: no item of the output
\* stream is a RetryAfter error, however many throttling responses a task
\* receives in a row, and a task whose last response was a throttling one is
\* always in the retry loop, never failed.
ThrottlingInvisible ==
    /\ \A e \in Emitted : e.item.class # "RetryAfter"
    /\ \A t \in Tasks :
          nodes[t].resp = "throttled" =>
             nodes[t].pc \in {"sleep", "acquire", "request"}

\* A page task of a listing got as many throttling responses in a row as the
\* upstream gives, was then answered, and its execution is over.
ThrottlingInvisibleWitness ==
    \E t \in Tasks :
        /\ IsListing(nodes[t].task)
        /\ nodes[t].nthrottled = MaxThrottle
        /\ nodes[t].nreq = MaxThrottle + 1
        /\ nodes[t].pc = "done"
        /\ ItemsOf(t) # {}

----------------------------------------------------------------------------
\* A 429 without a usable cool-down hint.

\* The tasks whose last response was a 429 with no Retry-After header, or
\* with one that is not a whole number of seconds.
HintlessTasks == {t \in Tasks : nodes[t].cause = "hint"}

\* C11: an HTTP 429 response that has no Retry-After header, or whose
\* Retry-After value is not a whole number of seconds, is a fatal
\* InvalidResponse failure of its task: the request is not retried, and the
\* task emits one error item of that class and nothing else (exactly one once
\* its execution is over).
HintlessThrottleIsFatal ==
    \A t \in HintlessTasks :
        /\ nodes[t].pc \in {"process", "done"}
        /\ nodes[t].nreq = nodes[t].nthrottled + 1
        /\ \A e \in ItemsOf(t) : ~e.item.ok /\ e.item.class = "InvalidResponse"
        /\ Cardinality(ItemsOf(t)) <= 1
        /\ nodes[t].pc = "done" => Cardinality(ItemsOf(t)) = 1

\* A page task of a listing was answered 429 without a usable hint, its
\* execution is over and the consumer has its InvalidResponse error item.
HintlessThrottleIsFatalWitness ==
    \E t \in HintlessTasks :
        /\ IsListing(nodes[t].task)
        /\ nodes[t].pc = "done"
        /\ \E e \in got : e.task = t /\ e.item.class = "InvalidResponse"

----------------------------------------------------------------------------
\* The pause of a throttled task.

\* The tasks whose last response was a throttling one and that are past the
\* pause, on their way to the next attempt.
ResumedTasks ==
    {t \in Tasks : nodes[t].resp = "throttled" /\ nodes[t].pc \in {"acquire", "request"}}

\* C12: after a throttling response with Retry-After = s seconds, the next
\* request attempt of the same task is issued no earlier than s seconds
\* after that response arrived: the task leaves its pause, and issues the
\* attempt, only when s seconds have passed.
PauseRespected ==
    /\ [](\A t \in ResumedTasks : nodes[t].waited >= nodes[t].hint)
    /\ [][\A t \in Tasks :
            (nodes[t].resp = "throttled" /\ nodes'[t].nreq > nodes[t].nreq) =>
                nodes[t].waited >= nodes[t].hint]_vars

\* The root fetch was told to wait 2 seconds, 2 seconds have passed and it
\* is about to issue its second attempt.
PauseRespectedWitness ==
    /\ nodes[1].resp = "throttled"
    /\ nodes[1].hint = 2
    /\ nodes[1].waited = 2
    /\ nodes[1].pc = "request"
    /\ nodes[1].nreq = 1

----------------------------------------------------------------------------
\* Cancellation.

Cancelled == rx = "dropped"

\* Every task execution and every drain loop has ended (a task dropped with
\* its queue never had either).
Quiescent ==
    \A t \in Tasks :
        /\ nodes[t].pc \in {"done", "panicked", "dropped"}
        /\ nodes[t].drainer \in
              IF nodes[t].pc = "dropped" THEN {"none"} ELSE {"ended", "panicked"}

\* C13: once the consumer has dropped the output stream, production stops:
\* every task execution and every drain loop of the crawl eventually ends
\* (no task being throttled for ever), and from the drop on no item is
\* delivered to the consumer.
ProductionStops ==
    /\ Cancelled ~> Quiescent
    /\ [][Cancelled => (Cancelled' /\ got' = got /\ out' = <<>>)]_vars

\* The consumer dropped the stream after taking an item; the crawl has
\* wound down, a task having panicked on its send and a queued task having
\* been dropped with its queue.
ProductionStopsWitness ==
    /\ Cancelled
    /\ Quiescent
    /\ got # {}
    /\ \E t \in Tasks : nodes[t].pc = "panicked"
    /\ \E t \in Tasks : nodes[t].pc = "dropped"

\* C14: cancelling the crawl abandons pending work: a task that was waiting
\* on the rate limiter, sleeping in a throttled retry or queued in a hand-off
\* queue when the consumer dropped the output stream issues no further
\* upstream request, so it never comes to process a response.
PendingWorkAbandoned ==
    \A t \in Tasks :
        nodes[t].pending => nodes[t].pc \notin {"process", "done", "panicked"}

----------------------------------------------------------------------------
\* One record per node of a response.

\* The offset in its listing at which the page answered to t ends: where the
\* page after it starts, or the end of the listing.
PageEnd(t) ==
    LET next == {c \in Children(t) : nodes[c].listing = nodes[t].listing}
    IN IF next = {} THEN Len(ListingOf(world, nodes[t].task))
       ELSE Offset(nodes[CHOOSE c \in next : TRUE].task.pagination[1])

\* The nodes the successful response to t contained, in order.
Returned(t) ==
    IF IsListing(nodes[t].task)
    THEN SubSeq(ListingOf(world, nodes[t].task),
                Offset(nodes[t].task.pagination[1]) + 1, PageEnd(t))
    ELSE <<[id |-> nodes[t].task.id]>>

\* The tasks that were answered with a success and are over.
SucceededTasks == {t \in Tasks : nodes[t].pc = "done" /\ nodes[t].resp = "ok"}

\* The places where the node x came back in a successful response.
Fetches(x) ==
    {f \in SucceededTasks \X (1..3) :
        f[2] \in DOMAIN Returned(f[1]) /\ Returned(f[1])[f[2]].id = x}

RecordsFor(x) == {e \in Emitted : e.item.ok /\ e.item.id = x}

\* C15: each successful task execution emits every node of its response
\* exactly once and nothing else, and a throttled attempt emits nothing, so
\* one fetch never yields the same node twice; nothing is deduplicated across
\* fetches: at the end of a crawl a node has as many records as there were
\* successful fetches that returned it.
OncePerFetch ==
    /\ \A t \in SucceededTasks :
          /\ ItemsOf(t) = RecordsOf(t)
          /\ \A x \in Ids :
                Cardinality({e \in RecordsOf(t) : e.item.id = x}) =
                Cardinality({i \in DOMAIN Returned(t) : Returned(t)[i].id = x})
    /\ \A t \in Tasks : nodes[t].resp = "throttled" => ItemsOf(t) = {}
    /\ (Closed /\ AllExecuted) =>
          \A x \in Ids : Cardinality(RecordsFor(x)) = Cardinality(Fetches(x))

\* The crawl is over and the block B3, returned by the listings of two
\* parents, has been delivered twice, by two tasks.
OncePerFetchWitness ==
    /\ Closed
    /\ Cardinality(Fetches("B3")) = 2
    /\ \E e, f \in got : /\ e.task # f.task
                         /\ e.item.id = "B3"
                         /\ f.item.id = "B3"

----------------------------------------------------------------------------
\* The follow-up of a database.

\* The single Database fetches that succeeded and are over.
DatabaseFetches == {t \in SucceededTasks : nodes[t].task.kind = "Database"}

\* The first page of the database-query listing of id, as a request.
DatabaseQueryOf(id) ==
    [kind |-> "DatabaseQuery", id |-> id,
     pagination |-> Some([cursor |-> None,
                          url |-> [path |-> "databases/{id}/query", id |-> id],
                          method |-> "POST",
                          start_index |-> 0])]

\* C16: processing the result of a single Database fetch emits the Database
\* record and enqueues exactly one follow-up, the first page (no
\* continuation token, offset 0) of the database-query listing of that
\* database: a request to the database-query endpoint of that id with the
\* database-query method (POST).
DatabaseYieldsQuery ==
    \A t \in DatabaseFetches :
        /\ {e.item : e \in ItemsOf(t)} = {OkItem("Database", nodes[t].task.id, 0)}
        /\ Cardinality(ItemsOf(t)) = 1
        /\ Cardinality(Children(t)) = 1
        /\ \A c \in Children(t) : nodes[c].task = DatabaseQueryOf(nodes[t].task.id)

----------------------------------------------------------------------------
\* The initial task.

\* The result of the initial task has not arrived yet.
RootUnanswered == nodes[1].pc \in {"spawned", "acquire", "request", "sleep"}

----------------------------------------------------------------------------
\* The order of a node's record and the records of its follow-ups.

\* The follow-up task c was enqueued for a node itself (the fetch of a page
\* or a database, the first page of a listing), not for a further page.
FollowsNode(c) ==
    /\ nodes[c].parent # 0
    /\ IsListing(nodes[c].task) => nodes[c].task.pagination[1].cursor = None

\* The record of node x is still to be sent by task p.
RecordToSend(p, x) ==
    \E i \in 1..Len(nodes[p].ops) :
        /\ nodes[p].ops[i].ch = "res"
        /\ nodes[p].ops[i].item[1].id = x

\* The follow-up for node x is still to be enqueued by task p.
FollowUpToSend(p, x) ==
    \E i \in 1..Len(nodes[p].ops) :
        /\ nodes[p].ops[i].ch = "task"
        /\ nodes[p].ops[i].task.id = x
        /\ IsListing(nodes[p].ops[i].task) =>
               nodes[p].ops[i].task.pagination[1].cursor = None

\* C18: the stream gives no parent-before-child guarantee.  The code sends
\* the follow-up of a node before the node's own record: when a record of a
\* Page, Database or Block node is on the stream, the task that sent it has
\* no follow-up of that node left to enqueue.  So there is a reachable state
\* (ChildDeliveredFirst) in which a record produced by a follow-up task has
\* been delivered while the record of the node whose processing enqueued
\* that follow-up has not even been sent.
FollowUpBeforeRecord ==
    \A e \in Emitted :
        (e.item.ok /\ e.item.type \in {"Page", "Database", "Block"})
            => ~FollowUpToSend(e.task, e.item.id)

\* A record of the follow-up c is in the consumer's hands, the record of the
\* node c was enqueued for is still to be sent by c's parent.
ChildDeliveredFirst ==
    \E c \in Tasks :
        /\ FollowsNode(c)
        /\ \E e \in got : e.task = c /\ e.item.ok
        /\ RecordToSend(nodes[c].parent, nodes[c].task.id)
        /\ \A e \in Emitted :
               e.task = nodes[c].parent => e.item.id # nodes[c].task.id

----------------------------------------------------------------------------
\* A task the upstream throttles forever.

\* The tasks a stalled crawl can have and the attempts counted per task.
MaxStallTasks == 6
MaxAttempts == 2

\* A page addressed as a block, with two blocks listed one per page and no
\* comment; the first block has children, and the upstream answers the
\* listing of that block's children with a throttling response every time.
WorldStall ==
    [root |-> "P1",
     block_type |-> [Plain EXCEPT !["P1"] = "child_page"],
     has_children |-> {"P1", "B1"},
     children |-> [NoSeq EXCEPT !["P1"] = <<"B1", "B2">>],
     items |-> NoSeq,
     comments |-> NoSeq,
     page_sizes |-> {1},
     throttling |-> FALSE,
     paging |-> "regular",
     stalled |-> "B1"]

\* The task the upstream never answers but with a throttling response.
Stalled(t) ==
    /\ nodes[t].task.kind = "BlockChildren"
    /\ nodes[t].task.id = world.stalled

\* do_request on a throttling response, for a task throttled forever: the
\* sleep of the retry loop, and the loop goes round without a limit.  The
\* upstream asks for one second each time; the attempts are counted up to
\* MaxAttempts.
ThrottleForever(t) ==
    /\ nodes[t].pc = "request"
    /\ Stalled(t)
    /\ \E secs \in {1} :
         LET res == Throttled(secs)
             r == api_call(nodes[t].task, res)
         IN /\ Retries(r)
            /\ nodes' = [nodes EXCEPT
                           ![t].nreq = Min(@ + 1, MaxAttempts),
                           ![t].nthrottled = Min(@ + 1, MaxAttempts),
                           ![t].resp = ResponseClass(res),
                           ![t].cause = ResponseCause(res),
                           ![t].hint = res.retry[1].secs,
                           ![t].waited = 0,
                           ![t].pc = "sleep",
                           ![t].sleep = Pause(r.err[1].secs)]
    /\ UNCHANGED <<db, latest, world, rx, out, resParked, resSenders, got, tokens, throttles>>

\* Fetcher::fetch on the root of WorldStall.
StallInit ==
    /\ world = WorldStall
    /\ nodes = <<[NewNode(InitialTask(world.root), 0, 1) EXCEPT !.pc = "spawned"]>>
    /\ out = <<>>
    /\ resParked = <<>>
    /\ resSenders = 1
    /\ got = {}
    /\ tokens = Burst
    /\ throttles = 0
    /\ rx = "open"
    /\ db = EmptyDb
    /\ latest = NoneConsumed

StallNext ==
    \/ StartRoot
    \/ \E t \in Tasks : Acquire(t)
    \/ \E t \in Tasks : ~Stalled(t) /\ Request(t)
    \/ \E t \in Tasks : ThrottleForever(t)
    \/ Tick
    \/ \E t \in Tasks : Wake(t)
    \/ \E t \in Tasks : SendTask(t)
    \/ \E t \in Tasks : SendRes(t)
    \/ \E t \in Tasks : Finish(t)
    \/ \E p \in Tasks : DrainNext(p)
    \/ Consume

\* The next step of the execution of task t, which is sequential: at most
\* one of these is enabled.
TaskStep(t) ==
    \/ Acquire(t)
    \/ ~Stalled(t) /\ Request(t)
    \/ ThrottleForever(t)
    \/ Wake(t)
    \/ SendTask(t)
    \/ SendRes(t)
    \/ Finish(t)

\* The runtime polls every future that can make progress: the execution of
\* each task, each drain loop, the clock and the consumer are treated fairly.
StallFairness ==
    /\ WF_vars(StartRoot)
    /\ WF_vars(Tick)
    /\ WF_vars(Consume)
    /\ \A t \in 1..MaxStallTasks :
         /\ WF_vars(t \in Tasks /\ TaskStep(t))
         /\ WF_vars(t \in Tasks /\ DrainNext(t))

StallSpec == StallInit /\ [][StallNext]_vars /\ StallFairness

\* t is in the branch of a task throttled forever.
UnderStalled(t) == \E s \in Tasks : Stalled(s) /\ IsUnder(t, s)

\* t was enqueued by the parent of a task throttled forever, after it.
BehindStalled(t) ==
    \E s \in Tasks : Stalled(s) /\ nodes[t].parent = nodes[s].parent /\ t > s

\* Task t has issued a request.
Executed(t) == t \in Tasks /\ nodes[t].nreq > 0

\* C19: each follow-up task is the root of an independently processed
\* subtree: a task throttled forever stalls only its own branch; every
\* follow-up of the same parent enqueued after it, and every task in other
\* branches, is still eventually executed.
StallIsLocal ==
    <>[](\A t \in Tasks : ~UnderStalled(t) => Executed(t))

\* What does hold of a task throttled forever: every task outside its branch
\* that its parent did not enqueue after it is eventually executed.
StallSparesOtherBranches ==
    <>[](\A t \in Tasks : (~UnderStalled(t) /\ ~BehindStalled(t)) => Executed(t))

\* The follow-up enqueued after a task throttled forever is never taken
\* from the hand-off queue.
StallHoldsLaterSiblings ==
    \A t \in Tasks : BehindStalled(t) => nodes[t].pc = "queued"

\* The stalled task is at its second attempt or later, a follow-up enqueued
\* after it is waiting, and a task of another branch has been executed.
StallWitness ==
    /\ \E s \in Tasks : Stalled(s) /\ nodes[s].nreq = MaxAttempts
    /\ \E t \in Tasks : BehindStalled(t)
    /\ \E t \in Tasks : nodes[t].task.kind = "Comments" /\ nodes[t].pc = "done"

----------------------------------------------------------------------------
\* The consumer on any stream.

\* The node ids and positions of the records of an arbitrary stream.
SyncIds == {"P1", "B1"}
MaxChildIndex == 1

\* The items a stream can yield: Block records at any position, records of
\* the other kinds (which carry no position), and errors.
StreamItems ==
    {OkItem("Block", id, i) : id \in SyncIds, i \in 0..MaxChildIndex}
    \cup {OkItem(type, "P1", 0) : type \in {"Page", "Database", "Comment", "User"}}
    \cup {ErrItem(e) : e \in {invalid_response, from_reqwest}}

\* run_sync: rx.next() yields item, and the body of the loop runs on it.
Receive(item) ==
    /\ db' = run_sync_item(db, item)
    /\ latest' = Consumed(latest, item)
    /\ got' = got \cup {[item |-> item, task |-> 0, n |-> 0]}
    /\ UNCHANGED <<world, nodes, out, resParked, resSenders, tokens, throttles, rx>>

SyncInit == Init /\ world = WorldPage
SyncNext == \E item \in StreamItems : Receive(item)
SyncSpec == SyncInit /\ [][SyncNext]_vars

\* The rows of a table.
RowsOf(table) ==
    CASE table = "blocks" -> db.blocks
      [] table = "pages" -> db.pages
      [] table = "databases" -> db.databases
      [] table = "comments" -> db.comments

\* C20: the persistence consumer upserts by identifier.  After consuming any
\* sequence of records, each table holds at most one row per node id, and
\* that row is the row of the last record consumed for that id (no row when
\* none was consumed); and consuming a record the store has just consumed
\* leaves the store as it is.
UpsertByIdentifier ==
    /\ \A table \in Tables : \A id \in Ids :
         {r \in RowsOf(table) : r.id = id} =
             IF latest[<<table, id>>] = None THEN {}
             ELSE {Row(latest[<<table, id>>][1])}
    /\ \A item \in StreamItems :
         run_sync_item(run_sync_item(db, item), item) = run_sync_item(db, item)

\* A block was consumed at two different positions and a page twice: the
\* second record of the block replaced the first.
UpsertByIdentifierWitness ==
    /\ \E e1, e2 \in got :
         /\ e1.item.ok /\ e2.item.ok
         /\ e1.item.type = "Block" /\ e2.item.type = "Block"
         /\ e1.item.id = e2.item.id
         /\ e1.item.child_index # e2.item.child_index
    /\ Cardinality(db.blocks) = 1
    /\ Cardinality(db.pages) = 1
    /\ \E e \in got : ~e.item.ok

----------------------------------------------------------------------------
\* The cursors of a listing.

\* The listing tasks, and those made from the cursor derived from a page.
ListingTasks == {t \in Tasks : IsListing(nodes[t].task)}
DerivedTasks == {t \in ListingTasks : nodes[t].task.pagination[1].cursor # None}

\* The cursor of the listing task t.
CursorOf(t) == nodes[t].task.pagination[1]

\* The number of items returned by the pages of t's listing before t.
ReturnedBefore(t) ==
    Cardinality({e \in Emitted : /\ e.task \in Chain(nodes[t].listing)
                                 /\ e.task < t
                                 /\ e.item.ok})

\* C21: for every cursor of a listing, its start offset equals the total
\* number of items returned by all earlier pages of the same listing (0 for
\* the first page); the cursor derived from a page keeps the target URL and
\* the method of the cursor of that page, carries the continuation token of
\* that page, and has start offset = previous start offset + number of items
\* in that page.
CursorInvariant ==
    /\ \A t \in ListingTasks :
         /\ CursorOf(t).start_index = ReturnedBefore(t)
         /\ CursorOf(t).cursor = None => CursorOf(t).start_index = 0
    /\ \A t \in DerivedTasks :
         LET p == nodes[t].parent IN
         /\ p \in ListingTasks
         /\ nodes[p].task.kind = nodes[t].task.kind
         /\ nodes[p].listing = nodes[t].listing
         /\ CursorOf(t).url = CursorOf(p).url
         /\ CursorOf(t).method = CursorOf(p).method
         /\ CursorOf(t).cursor = Some(Offset(CursorOf(p)) + Cardinality(RecordsOf(p)))
         /\ CursorOf(t).start_index =
                CursorOf(p).start_index + Cardinality(RecordsOf(p))

\* The third page of a listing is being fetched: its cursor starts at 2.
CursorInvariantWitness ==
    \E t \in DerivedTasks :
        /\ nodes[nodes[t].parent].task.pagination[1].cursor # None
        /\ CursorOf(t).start_index = 2
        /\ nodes[t].pc = "request"

----------------------------------------------------------------------------
\* The pages of one listing, in sequence.

\* Task t is in do_request: waiting for a token, with its request in
\* flight, or in the pause of a retry.
InRequest(t) == nodes[t].pc \in {"acquire", "request", "sleep"}

\* The Block records of the listing of task t that are on the stream.
BlockRecordsOnStream(t) ==
    {e \in Emitted : /\ e.task \in Chain(nodes[t].listing)
                     /\ e.item.ok /\ e.item.type = "Block"}

\* The item a step has just put on the stream enters after every Block
\* record of its listing at a lower position, and after none other.
EntersInOrder ==
    Len(out') = Len(out) + 1 =>
        LET e == out'[Len(out')] IN
        (e.item.ok /\ e.item.type = "Block" /\ e.task \in ListingTasks) =>
            \A f \in BlockRecordsOnStream(e.task) :
                f.item.child_index < e.item.child_index

\* C22: within one listing, pages are fetched strictly in sequence: the
\* task of page k+1 exists (and so its request is issued) only after the
\* response of page k has been received and every record of page k has been
\* accepted by the output stream; at most one task of a listing is in
\* do_request at any time; and the Block records of one listing enter the
\* output stream in strictly increasing position order.
PagesInSequence ==
    /\ [](\A t \in DerivedTasks :
            /\ nodes[nodes[t].parent].resp = "ok"
            /\ nodes[nodes[t].parent].ops = <<>>
            /\ \A s \in Chain(nodes[t].listing) : s < t => nodes[s].ops = <<>>)
    /\ [](\A l \in ListingTasks :
            Cardinality({t \in Chain(l) : InRequest(t)}) <= 1)
    /\ [][EntersInOrder]_vars

\* The second page of a block-children listing has put its record on the
\* stream, after the record of the first page.
PagesInSequenceWitness ==
    \E t \in DerivedTasks :
        /\ nodes[t].task.kind = "BlockChildren"
        /\ RecordsOf(t) # {}
        /\ RecordsOf(nodes[t].parent) # {}

----------------------------------------------------------------------------
\* What a throttled attempt leaves behind.

\* The step is an attempt of task t that was answered with a throttling
\* response.
ThrottledAttempt(t) ==
    /\ nodes'[t].nreq = nodes[t].nreq + 1
    /\ nodes'[t].resp = "throttled"

\* The block-children listings one of whose page requests was throttled.
ThrottledListings == {l \in BlockListings : Chain(l) \cap ThrottledTasks # {}}

\* C23: a throttled attempt leaves the task unchanged: the retry is issued
\* with the identical target, method, continuation token and start offset
\* (the task of an execution never changes), the throttled attempt itself
\* emits no record and enqueues no follow-up, and a listing that was
\* throttled and then succeeded has each of its pages once and in order:
\* its records are the items of the listing, each at its position.
ThrottleLeavesTask ==
    /\ [][\A t \in Tasks :
            /\ nodes'[t].task = nodes[t].task
            /\ ThrottledAttempt(t) =>
                  /\ nodes'[t].ops = <<>>
                  /\ nodes'[t].nsent = nodes[t].nsent
                  /\ nodes'[t].queue = nodes[t].queue
                  /\ Len(nodes') = Len(nodes)
                  /\ out' = out]_vars
    /\ [](\A t \in Tasks : nodes[t].resp = "throttled" =>
            nodes[t].nsent = 0 /\ Children(t) = {})
    /\ [](\A l \in ThrottledListings :
            ListingSucceeded(l) =>
                LET items == world.children[nodes[l].task.id] IN
                /\ Cardinality(BlockRecordsOf(l)) = Len(items)
                /\ \A e \in BlockRecordsOf(l) :
                      /\ e.item.child_index < Len(items)
                      /\ e.item.id = items[e.item.child_index + 1]
                /\ \A s, t \in Chain(l) :
                      s < t => CursorOf(s).start_index < CursorOf(t).start_index)

\* The second page of a listing was throttled, was issued again and
\* succeeded, and the whole listing is done.
ThrottleLeavesTaskWitness ==
    \E l \in ThrottledListings :
        /\ ListingSucceeded(l)
        /\ \E t \in Chain(l) \cap DerivedTasks :
              /\ nodes[t].nthrottled > 0
              /\ nodes[t].nreq = nodes[t].nthrottled + 1
              /\ RecordsOf(t) # {}

----------------------------------------------------------------------------
\* Listing pages whose has_more flag and continuation token disagree.

\* Fetcher::fetch against an upstream of QuirkWorlds.
QuirkInit ==
    /\ world \in QuirkWorlds
    /\ nodes = <<[NewNode(InitialTask(world.root), 0, 1) EXCEPT !.pc = "spawned"]>>
    /\ out = <<>>
    /\ resParked = <<>>
    /\ resSenders = 1
    /\ got = {}
    /\ tokens = Burst
    /\ throttles = 0
    /\ rx = "open"
    /\ db = EmptyDb
    /\ latest = NoneConsumed

QuirkSpec == QuirkInit /\ [][Next]_vars

\* The listing tasks answered with a page whose has_more flag is false and
\* which carries a continuation token; those answered with a page whose
\* has_more flag is true and which carries none.
StrayTokenTasks ==
    {t \in ListingTasks : /\ nodes[t].page # None
                          /\ ~nodes[t].page[1].has_more
                          /\ nodes[t].page[1].next_cursor # None}
LostTokenTasks ==
    {t \in ListingTasks : /\ nodes[t].page # None
                          /\ nodes[t].page[1].has_more
                          /\ nodes[t].page[1].next_cursor = None}

\* The follow-ups of t for a further page of its listing: enqueued, or
\* still to be enqueued.
NextPageTasks(t) == Children(t) \cap DerivedTasks
NextPageToSend(t) ==
    \E i \in 1..Len(nodes[t].ops) :
        /\ nodes[t].ops[i].ch = "task"
        /\ IsListing(nodes[t].ops[i].task)
        /\ nodes[t].ops[i].task.pagination[1].cursor # None

\* C24: a listing page whose has-more flag is false ends its listing even
\* when the page carries a continuation token: no next cursor is derived
\* and no next-page follow-up is enqueued, and the records of the page are
\* emitted as for any last page.
HasMoreFalseEnds ==
    \A t \in StrayTokenTasks :
        /\ NextPageTasks(t) = {}
        /\ ~NextPageToSend(t)
        /\ nodes[t].pc = "done" =>
              /\ RecordsOf(t) # {}
              /\ ItemsOf(t) = RecordsOf(t)

\* The last page of a listing came with a token, its record was emitted
\* and the crawl is over.
HasMoreFalseEndsWitness ==
    \E t \in StrayTokenTasks \cap DerivedTasks :
        /\ nodes[t].pc = "done"
        /\ RecordsOf(t) # {}
        /\ Closed


\* C25: a listing page with a has-more flag of true and no continuation
\* token is an invalid-response failure of its task: the task emits one
\* error item of the InvalidResponse class and no record of the page, and
\* the page is not taken for the normal end of the listing.
LostTokenIsFailure ==
    \A t \in LostTokenTasks :
        nodes[t].pc = "done" =>
            /\ RecordsOf(t) = {}
            /\ Cardinality(ItemsOf(t)) = 1
            /\ \A e \in ItemsOf(t) : e.item.class = "InvalidResponse"

----------------------------------------------------------------------------
\* A 2xx response whose body does not decode.

\* A response with a success status and a body that fails to decode.
Undecodable == Http(200, None, FALSE, None)

\* What task t sends when its request is answered with res.
OpsOn(t, res) == do_task_ops(nodes[t].task, api_call(nodes[t].task, res))

\* C26: every 2xx response whose body fails to decode is classified as an
\* InvalidResponse error, for single-node fetches and for listing pages
\* alike: whatever task of the crawl is answered with such a response, the
\* one item it emits is an error of the InvalidResponse class.
DecodeFailureIsInvalidResponse ==
    \A t \in Tasks : OpsOn(t, Undecodable) = <<ResOp(ErrItem(invalid_response))>>

\* The same for the single-node fetches only.
DecodeFailureOfSingleIsInvalidResponse ==
    \A t \in Tasks \ ListingTasks :
        OpsOn(t, Undecodable) = <<ResOp(ErrItem(invalid_response))>>

----------------------------------------------------------------------------
\* The rate limiter.

\* The step grants task t a token: t leaves rate_limiter.acquire().
Granted(t) == nodes[t].pc # "request" /\ nodes'[t].pc = "request"

\* The step is a request attempt of task t.
Attempt(t) == nodes'[t].nreq # nodes[t].nreq

\* C27: every upstream request attempt of every task, including each
\* re-issue after a throttling response, is preceded by its own acquire on
\* the one rate limiter shared by all tasks: an attempt is made only by a
\* task that holds a grant and uses the grant up; a grant is given only to a
\* task in acquire and takes one token off the shared budget, which is
\* never negative; the budget grows only as time passes, never by a token
\* handed back, and a throttling response leaves it as it is.
AcquireBeforeRequest ==
    /\ [](tokens \in 0..Burst)
    /\ [][\A t \in Tasks :
            /\ Attempt(t) =>
                  /\ nodes[t].pc = "request"
                  /\ nodes'[t].pc # "request"
                  /\ nodes'[t].nreq = nodes[t].nreq + 1
                  /\ tokens' = tokens
            /\ Granted(t) =>
                  /\ nodes[t].pc = "acquire"
                  /\ tokens > 0
                  /\ tokens' = tokens - 1
                  /\ \A s \in Tasks \ {t} : ~Granted(s)
            /\ tokens' > tokens =>
                  /\ nodes'[t].pc = nodes[t].pc
                  /\ tokens' = Min(Burst, tokens + Rate)
            /\ tokens' < tokens => \E s \in Tasks : Granted(s)]_vars

\* A task was throttled, acquired again and issued its request a second
\* time, while another task holds a grant.
AcquireBeforeRequestWitness ==
    /\ \E t \in Tasks : nodes[t].nthrottled = 1 /\ nodes[t].nreq = 2
    /\ \E s \in Tasks : nodes[s].pc = "request" /\ nodes[s].nreq = 0

----------------------------------------------------------------------------
\* The follow-up of a block.

\* The Block records on the stream.
BlockRecords == {e \in Emitted : e.item.ok /\ e.item.type = "Block"}

\* The follow-ups that the task of record e enqueued for the node of e.
FollowUpsOf(e) ==
    {c \in Children(e.task) : FollowsNode(c) /\ nodes[c].task.id = e.item.id}

\* The first page of the block-children listing of id, as a request.
BlockChildrenOf(id) ==
    [kind |-> "BlockChildren", id |-> id,
     pagination |-> Some([cursor |-> None,
                          url |-> [path |-> "blocks/{id}/children", id |-> id],
                          method |-> "GET",
                          start_index |-> 0])]

\* The follow-up tasks the block id is to produce, by subtype first and
\* has-children second.
FollowUpsDue(id) ==
    CASE world.block_type[id] = "child_page" ->
           {[kind |-> "Page", id |-> id, pagination |-> None]}
      [] world.block_type[id] = "child_database" ->
           {[kind |-> "Database", id |-> id, pagination |-> None]}
      [] OTHER ->
           IF id \in world.has_children THEN {BlockChildrenOf(id)} ELSE {}

\* C28: for every block obtained by a direct fetch or inside a
\* block-children page, the follow-up is determined by subtype first and
\* has-children second: a child database gives exactly the single-database
\* fetch of the block id; a subtype other than child page and child
\* database gives exactly one first-page block-children listing of the
\* block id when has-children is true and no follow-up when it is false;
\* and the Block record is emitted in every case.
BlockFollowUp ==
    /\ \A e \in BlockRecords :
         /\ {nodes[c].task : c \in FollowUpsOf(e)} = FollowUpsDue(e.item.id)
         /\ Cardinality(FollowUpsOf(e)) = Cardinality(FollowUpsDue(e.item.id))
    /\ \A t \in SucceededTasks :
         /\ nodes[t].task.kind = "Block" =>
               \E e \in BlockRecords : e.task = t /\ e.item.id = nodes[t].task.id
         /\ nodes[t].task.kind = "BlockChildren" =>
               Cardinality({e \in BlockRecords : e.task = t}) = Len(Returned(t))

\* A child-database block that says it has children gave the database
\* fetch and nothing else, and was emitted.
BlockFollowUpWitness ==
    \E e \in BlockRecords :
        /\ world.block_type[e.item.id] = "child_database"
        /\ e.item.id \in world.has_children
        /\ \E c \in FollowUpsOf(e) : nodes[c].pc = "done"
        /\ Closed

----------------------------------------------------------------------------
\* The follow-ups of a page of a database-query listing.

\* The pages of database-query listings that were processed to the end.
QueryPages == {t \in SucceededTasks : nodes[t].task.kind = "DatabaseQuery"}

\* The follow-ups task t enqueued for the node x.
FollowUpsFor(t, x) ==
    {c \in Children(t) : FollowsNode(c) /\ nodes[c].task.id = x}

\* The page task t was answered with gives a next cursor.
HasNextCursor(t) ==
    /\ nodes[t].page # None
    /\ nodes[t].page[1].has_more
    /\ nodes[t].page[1].next_cursor # None

\* C29: processing one page of a database-query listing emits every item
\* of the page and enqueues, per item, exactly one follow-up: the first
\* page of the database-query listing for a Database item, the first page
\* of the block-children listing for a Page item (no page fetch and no
\* comments listing); it then enqueues the next page of the same listing if
\* and only if a next cursor exists, and nothing else.
QueryPageFollowUps ==
    \A t \in QueryPages :
        LET page == Returned(t) IN
        /\ {e.item : e \in ItemsOf(t)} =
               {OkItem(page[i].kind, page[i].id, 0) : i \in DOMAIN page}
        /\ Cardinality(ItemsOf(t)) = Len(page)
        /\ \A i \in DOMAIN page :
              /\ Cardinality(FollowUpsFor(t, page[i].id)) = 1
              /\ \A c \in FollowUpsFor(t, page[i].id) :
                    nodes[c].task = IF page[i].kind = "Database"
                                    THEN DatabaseQueryOf(page[i].id)
                                    ELSE BlockChildrenOf(page[i].id)
        /\ Cardinality(NextPageTasks(t)) = IF HasNextCursor(t) THEN 1 ELSE 0
        /\ \A c \in NextPageTasks(t) :
              /\ nodes[c].task.kind = "DatabaseQuery"
              /\ nodes[c].listing = nodes[t].listing
        /\ Cardinality(Children(t)) = Len(page) + Cardinality(NextPageTasks(t))

\* A first page holding a Database item and giving a next cursor, and the
\* next page holding a Page item and giving none, have both been processed.
QueryPageFollowUpsWitness ==
    \E s, t \in QueryPages :
        /\ nodes[t].parent = s /\ t \in NextPageTasks(s)
        /\ Returned(s)[1].kind = "Database"
        /\ Returned(t)[1].kind = "Page"
        /\ ~HasNextCursor(t)

----------------------------------------------------------------------------
\* The follow-ups of a page fetch.

\* The single Page fetches that succeeded and are over.
PageFetches == {t \in SucceededTasks : nodes[t].task.kind = "Page"}

\* The first page of the comments listing of id, as a request.
CommentsOf(id) ==
    [kind |-> "Comments", id |-> id,
     pagination |-> Some([cursor |-> None,
                          url |-> [path |-> "comments?block_id={id}", id |-> id],
                          method |-> "GET",
                          start_index |-> 0])]

\* C30: processing the result of a single Page fetch emits the Page record
\* once and enqueues exactly two follow-ups, the first page of the
\* block-children listing of that page and the first page of the comments
\* listing of that page, both with no continuation token and start offset 0.
PageFetchFollowUps ==
    \A t \in PageFetches :
        LET id == nodes[t].task.id IN
        /\ {e.item : e \in ItemsOf(t)} = {OkItem("Page", id, 0)}
        /\ Cardinality(ItemsOf(t)) = 1
        /\ Cardinality(Children(t)) = 2
        /\ {nodes[c].task : c \in Children(t)} = {BlockChildrenOf(id), CommentsOf(id)}

\* A page fetch is over and both of its listings have been answered.
PageFetchFollowUpsWitness ==
    \E t \in PageFetches :
        /\ \A c \in Children(t) : nodes[c].pc = "done" /\ nodes[c].resp = "ok"
        /\ Cardinality(Children(t)) = 2

----------------------------------------------------------------------------
\* Comments.

\* The pages of comments listings that were processed to the end.
CommentPages == {t \in SucceededTasks : nodes[t].task.kind = "Comments"}

\* C31: comments are leaves: processing a page of a comments listing emits
\* each Comment of the page and enqueues no follow-up for any comment; the
\* only follow-up it can enqueue is the next page of the same comments
\* listing, and only when a next cursor exists.
CommentsAreLeaves ==
    /\ \A t \in CommentPages :
         LET page == Returned(t) IN
         /\ {e.item : e \in ItemsOf(t)} =
                {OkItem("Comment", page[i].id, 0) : i \in DOMAIN page}
         /\ Cardinality(ItemsOf(t)) = Len(page)
         /\ Children(t) = NextPageTasks(t)
         /\ Cardinality(Children(t)) = IF HasNextCursor(t) THEN 1 ELSE 0
         /\ \A c \in Children(t) :
               /\ nodes[c].task.kind = "Comments"
               /\ nodes[c].task.id = nodes[t].task.id
               /\ nodes[c].listing = nodes[t].listing
    /\ \A t \in Tasks :
         nodes[t].task.kind = "Comments" =>
             \A c \in Children(t) : c \in DerivedTasks /\ nodes[c].task.kind = "Comments"

\* The two pages of a comments listing, one comment each, have been
\* processed: the first enqueued the second, the second nothing.
CommentsAreLeavesWitness ==
    \E s, t \in CommentPages :
        /\ Children(s) = {t}
        /\ Children(t) = {}
        /\ RecordsOf(s) # {} /\ RecordsOf(t) # {}

----------------------------------------------------------------------------
\* Backpressure of the hand-off queues.

\* A block with three children that each say they have children (and have
\* none), listed in one page: one task execution discovers more follow-ups
\* than its hand-off queue holds and emits more records than the output
\* channel holds.
WorldWide ==
    [root |-> "B0",
     block_type |-> Plain,
     has_children |-> {"B0", "B1", "B2", "B3"},
     children |-> [NoSeq EXCEPT !["B0"] = <<"B1", "B2", "B3">>],
     items |-> NoSeq,
     comments |-> NoSeq,
     page_sizes |-> {3},
     throttling |-> TRUE,
     paging |-> "regular"]

WideInit ==
    /\ world = WorldWide
    /\ nodes = <<[NewNode(InitialTask(world.root), 0, 1) EXCEPT !.pc = "spawned"]>>
    /\ out = <<>>
    /\ resParked = <<>>
    /\ resSenders = 1
    /\ got = {}
    /\ tokens = Burst
    /\ throttles = 0
    /\ rx = "open"
    /\ db = EmptyDb
    /\ latest = NoneConsumed

WideSpec == WideInit /\ [][Next]_vars
WideFairSpec == WideSpec /\ WF_vars(Next)

\* channel(10) of do_task_recurs has one sender, the task_tx moved into
\* do_task: the queue holds its buffer and one more task, that of the sender
\* which then stays in send().await until the drain loop takes a task.
TaskCapacity == TaskBuffer + 1

\* The task execution of t is suspended in task_tx.send(task).await.
SuspendedAtEnqueue(t) == nodes[t].pc = "process" /\ nodes[t].parked

HandOffBounded ==
    \A t \in Tasks :
        /\ Len(nodes[t].queue) <= TaskCapacity
        /\ nodes[t].parked => /\ nodes[t].pc = "process"
                              /\ Len(nodes[t].queue) > TaskBuffer

\* A step of a suspended execution: it stays where it is, with the same
\* queue, unless the drain loop of its node takes a task.
StaysSuspended ==
    \A t \in Tasks :
        SuspendedAtEnqueue(t) =>
            \/ /\ nodes'[t].ops = nodes[t].ops
               /\ nodes'[t].pc = nodes[t].pc
               /\ nodes'[t].nsent = nodes[t].nsent
               /\ nodes'[t].queue = nodes[t].queue
               /\ nodes'[t].parked
            \/ /\ nodes[t].queue # <<>>
               /\ nodes'[t].queue = Tail(nodes[t].queue)
               /\ nodes'[t].ops = nodes[t].ops
               /\ nodes[Head(nodes[t].queue)].pc = "queued"
               /\ nodes'[Head(nodes[t].queue)].pc # "queued"

\* C32: the hand-off queue of each node is bounded: the follow-ups enqueued
\* and not yet taken by the drain loop never exceed the queue's capacity, and
\* a task execution that enqueued into a full queue is suspended at the
\* enqueue until the drain loop takes a task.
HandOffQueueBounded == []HandOffBounded /\ [][StaysSuspended]_vars

\* An execution that still has a follow-up to hand off is suspended at the
\* enqueue on a full queue.
HandOffQueueBoundedWitness ==
    \E t \in Tasks :
        /\ SuspendedAtEnqueue(t)
        /\ Len(nodes[t].queue) = TaskCapacity
        /\ \E i \in DOMAIN nodes[t].ops : nodes[t].ops[i].ch = "task"

----------------------------------------------------------------------------
\* Backpressure of the output channel.

\* What channel(10) of fetch would hold with a single sender: its buffer and
\* the one extra item of the sender that then parks.
ResCapacity == ResBuffer + 1

\* The task executions suspended in res_tx.send(item).await.
SuspendedAtEmit == {resParked[i] : i \in DOMAIN resParked}

\* Every do_task sends on its own clone of res_tx (fetcher.rs:165), and a
\* clone that is not parked always gets its item into the channel: the items
\* waiting for the consumer are the buffer and one item per parked clone.
OutputWithinSenderSlots ==
    /\ Len(out) <= ResBuffer + Cardinality(SuspendedAtEmit)
    /\ Len(resParked) = Cardinality(SuspendedAtEmit)
    /\ \A t \in SuspendedAtEmit : nodes[t].pc = "process"

\* C33: the merged output stream is bounded by a constant: the items accepted
\* and not yet taken by the consumer never exceed the stream's fixed capacity,
\* however many tasks are in flight, so that with a full stream every task
\* execution that still has an item to emit is suspended.
OutputStreamBounded == Len(out) <= ResCapacity

----------------------------------------------------------------------------
\* Every task is executed once.

\* The attempts of t that ended its request loop (do_request broke out with
\* a result, fetcher.rs:325-335).
Outcomes(t) == nodes[t].nreq - nodes[t].nthrottled

\* The tasks waiting in the hand-off queue of p.
QueuedAt(p) == {nodes[p].queue[i] : i \in DOMAIN nodes[p].queue}

OneOutcomeEach ==
    \A t \in Tasks :
        /\ Outcomes(t) \in {0, 1}
        /\ Outcomes(t) = 1 <=> nodes[t].pc \in {"process", "done"}
        /\ Outcomes(t) = 1 <=> nodes[t].resp \in {"ok", "fatal"}
        /\ nodes[t].pc = "queued" <=>
               (nodes[t].parent # 0 /\ t \in QueuedAt(nodes[t].parent))
        /\ nodes[t].pc = "queued" =>
               /\ nodes[nodes[t].parent].drainer \in {"idle", "busy"}
               /\ Cardinality({i \in DOMAIN nodes[nodes[t].parent].queue :
                                  nodes[nodes[t].parent].queue[i] = t}) = 1
        /\ \A p \in Tasks : t \in QueuedAt(p) => nodes[t].parent = p
        /\ Closed => nodes[t].pc = "done"

\* No step issues a request for a task that already has its outcome, or
\* takes a task back to a queue.
NoSecondExecution ==
    \A t \in Tasks :
        /\ Outcomes(t) = 1 => /\ nodes'[t].nreq = nodes[t].nreq
                              /\ nodes'[t].resp = nodes[t].resp
        /\ nodes[t].pc # "queued" => nodes'[t].pc # "queued"

\* C34: in a crawl that is not cancelled every created task is executed
\* exactly once: it gets one outcome, a success or a fatal failure, after any
\* number of throttled attempts; no task is dropped from a hand-off queue and
\* none is executed twice.
ExecutedExactlyOnce == []OneOutcomeEach /\ [][NoSecondExecution]_vars

\* A finished crawl of several tasks, one of them throttled before its
\* outcome and one failed.
ExecutedExactlyOnceWitness ==
    /\ Closed
    /\ Len(nodes) >= 3
    /\ \A t \in Tasks : Outcomes(t) = 1
    /\ \E t \in Tasks : nodes[t].nthrottled > 0
    /\ \E t \in Tasks : nodes[t].resp = "fatal"

----------------------------------------------------------------------------
\* The drain loop runs the follow-ups of a node one at a time.

\* The execution of t (do_task_recurs(t) awaited by the drain loop of its
\* parent) has started and has not returned.
Executing(t) == nodes[t].pc \in {"acquire", "request", "sleep", "process"}

\* The direct follow-ups of p in the order p enqueued them (a follow-up gets
\* its node when it is sent).
FollowUpsInOrder(p, s, t) == nodes[s].parent = p /\ nodes[t].parent = p /\ s < t

OneFollowUpAtATime ==
    \A p \in Tasks :
        /\ Cardinality({c \in Children(p) : Executing(c)}) <= 1
        /\ (\E c \in Children(p) : Executing(c)) <=> nodes[p].drainer = "busy"
        /\ \A s, t \in Tasks :
              FollowUpsInOrder(p, s, t) =>
                  /\ nodes[t].pc # "queued" => nodes[s].pc = "done"
                  /\ nodes[s].pc = "queued" => nodes[t].pc = "queued"

\* A step that starts a follow-up of p starts the head of p's queue, the
\* oldest one waiting.
StartsOldestWaiting ==
    \A t \in Tasks :
        (nodes[t].pc = "queued" /\ nodes'[t].pc # "queued") =>
            /\ t = Head(nodes[nodes[t].parent].queue)
            /\ \A s \in Children(nodes[t].parent) : s < t => nodes[s].pc = "done"

\* C35: the follow-ups of one node are executed one at a time in the order
\* they were enqueued: the drain loop starts the next one only after the
\* execution of the previous one has finished, so at most one direct
\* follow-up of a node executes at any time, while the subtree of a finished
\* follow-up keeps running.
FollowUpsOneAtATime == []OneFollowUpAtATime /\ [][StartsOldestWaiting]_vars

\* The second follow-up of a node executes while a follow-up of the first,
\* finished one is executing too.
FollowUpsOneAtATimeWitness ==
    \E p, s, t, g \in Tasks :
        /\ FollowUpsInOrder(p, s, t)
        /\ nodes[s].pc = "done"
        /\ Executing(t)
        /\ nodes[g].parent = s
        /\ Executing(g)

----------------------------------------------------------------------------
\* No send fails while the consumer holds the stream.

\* task_rx of node t is alive: the drain loop spawned for t (fetcher.rs:158)
\* has neither ended nor been unwound.
HandOffReceiverAlive(t) == nodes[t].drainer \in {"idle", "busy"}

\* The execution of t is at a send on the hand-off queue, on the output
\* channel.
AtTaskSend(t) ==
    nodes[t].pc = "process" /\ nodes[t].ops # <<>> /\ Head(nodes[t].ops).ch = "task"
AtResSend(t) ==
    nodes[t].pc = "process" /\ nodes[t].ops # <<>> /\ Head(nodes[t].ops).ch = "res"

\* C36: in a crawl whose consumer has not dropped the stream (and whose
\* database-query pages hold only Page and Database items) no send on the
\* output stream or on a hand-off queue fails: the receiver of a node's
\* hand-off queue is alive whenever the execution of that node enqueues a
\* follow-up, so that no unwrap in do_task panics.
NoSendFails ==
    /\ rx = "open"
    /\ \A t \in Tasks :
          /\ nodes[t].pc # "panicked"
          /\ nodes[t].drainer # "panicked"
          /\ nodes[t].pc = "process" => nodes[t].task_tx /\ HandOffReceiverAlive(t)
          /\ AtTaskSend(t) => HandOffReceiverAlive(t)
          /\ AtResSend(t) => rx = "open"
          /\ nodes[t].drainer = "ended" => nodes[t].pc = "done" /\ nodes[t].queue = <<>>

\* A database-query page is being processed: its execution is at the send of
\* a follow-up while the drain loop of its node runs the previous one.
NoSendFailsWitness ==
    \E t \in Tasks :
        /\ nodes[t].task.kind = "DatabaseQuery"
        /\ AtTaskSend(t)
        /\ nodes[t].drainer = "busy"
        /\ nodes[t].nsent > 0

----------------------------------------------------------------------------
\* The bounded queues do not deadlock the crawl.

\* Some task is waiting in a hand-off queue or suspended at a send.
SomeTaskWaits ==
    \E t \in Tasks :
        \/ nodes[t].pc = "queued"
        \/ SuspendedAtEnqueue(t)
        \/ t \in SuspendedAtEmit

\* No state with a waiting task is stuck: some step is possible; a sender
\* suspended on a hand-off queue has a live drain loop with a task to take,
\* a sender suspended on the output channel has an item the consumer can take.
NeverStuck ==
    /\ SomeTaskWaits => ENABLED Next
    /\ ~Closed => ENABLED Next
    /\ \A t \in Tasks :
          SuspendedAtEnqueue(t) =>
              /\ nodes[t].queue # <<>>
              /\ HandOffReceiverAlive(t)
              /\ nodes[t].drainer = "idle" => ENABLED DrainNext(t)
              /\ nodes[t].drainer = "busy" =>
                     \E c \in Children(t) : Executing(c)
    /\ SuspendedAtEmit # {} => ENABLED Consume

\* Under fair scheduling the crawl runs to its end: the stream closes with
\* every task done.
CrawlEnds == <>[](Closed /\ \A t \in Tasks : nodes[t].pc = "done")

\* C37: the crawler cannot deadlock on its bounded queues: with a consumer
\* that keeps taking items and an upstream that answers every request, there
\* is no reachable state in which a task is queued or suspended and no step
\* is possible, even when one task discovers more follow-ups than the
\* hand-off queue holds or emits more records than the output stream holds.
NoDeadlockOnQueues == []NeverStuck /\ CrawlEnds

\* One execution has handed off two of its three follow-ups and is suspended
\* on the full hand-off queue with two of its three records still to emit,
\* while the output channel is over its buffer with a sender suspended.
NoDeadlockOnQueuesWitness ==
    \E t \in Tasks :
        /\ SuspendedAtEnqueue(t)
        /\ Len(nodes[t].queue) = TaskCapacity
        /\ Cardinality({i \in DOMAIN nodes[t].ops : nodes[t].ops[i].ch = "task"}) >= 1
        /\ Cardinality({i \in DOMAIN nodes[t].ops : nodes[t].ops[i].ch = "res"}) >= 2
        /\ Len(out) > ResBuffer
        /\ SuspendedAtEmit # {}
====
